---- MODULE Spec2Model ----
(***************************************************************************)
(* Model of the topology-inference engine of koa73/NetConf_Parser          *)
(* (src/lib/device_analyzer.py, class NetworkTopologyAnalyzer).            *)
(*                                                                         *)
(* Representation of Python strings:                                       *)
(*  - an interface name or a device name is the sequence of its            *)
(*    characters, <<"G","E","1">> for "GE1";                               *)
(*  - an IP address string or a mask string is the sequence of its         *)
(*    dot-separated decimal fields, <<10,0,0,256>> for "10.0.0.256",       *)
(*    <<24>> for "24", <<>> for ""; a field that is not a decimal number   *)
(*    ("abc") is -1;                                                       *)
(*  - the string f"{ip}/{prefix}" is the pair <<ip, prefix>>.              *)
(* Two such values are equal exactly when the strings they stand for are.  *)
(***************************************************************************)
EXTENDS Integers, Sequences, FiniteSets, TLC

VARIABLES
  pc,              \* position of the modelled call
  devices_data,    \* the input: a sequence of device records
  physical_links,  \* analyze_topology()["physical_links"]
  mgmt_networks,   \* analyze_topology()["mgmt_networks"]
  logical_links,   \* analyze_topology()["logical_links"]
  call,            \* the argument of the function applied last
  ret              \* the value it returned

vars == <<pc, devices_data, physical_links, mgmt_networks, logical_links, call, ret>>

----------------------------------------------------------------------------
(* Python str and list primitives *)

Range(s) == {s[i] : i \in DOMAIN s}

DigitSeq == <<"0", "1", "2", "3", "4", "5", "6", "7", "8", "9">>

DigitChars == Range(DigitSeq)

DigitVal(c) == (CHOOSE i \in DOMAIN DigitSeq : DigitSeq[i] = c) - 1

UpperSeq == <<"A", "B", "C", "D", "E", "F", "G", "H", "I", "J", "K", "L", "M", "N", "O", "P", "Q", "R", "S", "T", "U", "V", "W", "X", "Y", "Z">>

LowerSeq == <<"a", "b", "c", "d", "e", "f", "g", "h", "i", "j", "k", "l", "m", "n", "o", "p", "q", "r", "s", "t", "u", "v", "w", "x", "y", "z">>

\* The characters of the model in ASCII order.
Alphabet == <<".", "/">> \o DigitSeq \o UpperSeq \o LowerSeq

\* ord(c), up to an order-preserving renumbering.
Ord(c) == CHOOSE i \in DOMAIN Alphabet : Alphabet[i] = c

\* str.lower() on one character.
LowerChar(c) == IF c \in Range(UpperSeq) THEN LowerSeq[CHOOSE i \in DOMAIN UpperSeq : UpperSeq[i] = c] ELSE c

\* str.lower()
Lower(s) == [i \in DOMAIN s |-> LowerChar(s[i])]

\* str.startswith(p)
StartsWith(s, p) == Len(s) >= Len(p) /\ SubSeq(s, 1, Len(p)) = p

\* str.startswith((p1, p2, ...))
StartsWithAny(s, ps) == \E p \in ps : StartsWith(s, p)

\* int(s) for a string of decimal digits.
RECURSIVE ParseInt(_)
ParseInt(cs) == IF cs = <<>> THEN 0 ELSE 10 * ParseInt(SubSeq(cs, 1, Len(cs) - 1)) + DigitVal(cs[Len(cs)])

\* str(n) for n >= 0; the non-numeric field -1 prints as a letter.
RECURSIVE DecStr(_)
DecStr(n) == IF n < 0 THEN <<"x">> ELSE IF n < 10 THEN <<DigitSeq[n + 1]>> ELSE DecStr(n \div 10) \o <<DigitSeq[(n % 10) + 1]>>

\* The characters of a dotted string given by its fields.
RECURSIVE DottedStr(_)
DottedStr(fs) == IF fs = <<>> THEN <<>> ELSE IF Len(fs) = 1 THEN DecStr(fs[1]) ELSE DecStr(fs[1]) \o <<".">> \o DottedStr(Tail(fs))

\* The characters of f"{ip}/{prefix}".
CidrStr(c) == DottedStr(c[1]) \o <<"/">> \o DecStr(c[2])

\* s < t for two Python strings (lexicographic by code point).
RECURSIVE StrLess(_, _)
StrLess(s, t) == IF t = <<>> THEN FALSE ELSE IF s = <<>> THEN TRUE ELSE IF s[1] = t[1] THEN StrLess(Tail(s), Tail(t)) ELSE Ord(s[1]) < Ord(t[1])

\* dict: an insertion-ordered sequence of <<key, value>> pairs.
DictHas(d, k) == \E i \in DOMAIN d : d[i][1] = k

DictIdx(d, k) == CHOOSE i \in DOMAIN d : d[i][1] = k

DictGet(d, k) == d[DictIdx(d, k)][2]

\* d[k] = v
DictPut(d, k, v) == IF DictHas(d, k) THEN [d EXCEPT ![DictIdx(d, k)] = <<k, v>>] ELSE Append(d, <<k, v>>)

\* d.setdefault(k, []).append(x)
DictAppend(d, k, x) == IF DictHas(d, k) THEN [d EXCEPT ![DictIdx(d, k)] = <<k, Append(d[DictIdx(d, k)][2], x)>>] ELSE Append(d, <<k, <<x>>>>)

----------------------------------------------------------------------------
(* ipaddress.IPv4Network, as far as the analyzer uses it.  A 32-bit address *)
(* is kept as its four octets; bit operations are done octet by octet.      *)

Pow2(n) == 2 ^ n

\* ipaddress accepts a dotted quad of four decimal fields 0..255.
ValidIPv4(ip) == Len(ip) = 4 /\ \A i \in 1..4 : ip[i] >= 0 /\ ip[i] <= 255

\* Number of network bits of a /p mask that fall into octet k (1..4).
OctetBits(p, k) == IF p >= 8 * k THEN 8 ELSE IF p <= 8 * (k - 1) THEN 0 ELSE p - 8 * (k - 1)

\* A masking that clears the host bits of whole octets only.
MaskOctet_WholeOctetsOnly(o, bits) == IF bits = 0 THEN 0 ELSE o

\* One octet with its host bits cleared.
MaskOctet(o, bits) == o - (o % Pow2(8 - bits))

\* int(address) & int(netmask), per octet.
MaskOctets(ip, p) == <<MaskOctet(ip[1], OctetBits(p, 1)), MaskOctet(ip[2], OctetBits(p, 2)), MaskOctet(ip[3], OctetBits(p, 3)), MaskOctet(ip[4], OctetBits(p, 4))>>

\* _count_righthand_zero_bits of one octet (8 for 0).
RECURSIVE TrailingZeros8(_)
TrailingZeros8(o) == IF o = 0 THEN 8 ELSE IF o % 2 = 1 THEN 0 ELSE 1 + TrailingZeros8(o \div 2)

\* _count_righthand_zero_bits(ip_int, 32)
TrailingZeros(m) == IF m[4] # 0 THEN TrailingZeros8(m[4]) ELSE IF m[3] # 0 THEN 8 + TrailingZeros8(m[3]) ELSE IF m[2] # 0 THEN 16 + TrailingZeros8(m[2]) ELSE 24 + TrailingZeros8(m[1])

\* The four octets of a /p netmask.
NetmaskOctets(p) == <<256 - Pow2(8 - OctetBits(p, 1)), 256 - Pow2(8 - OctetBits(p, 2)), 256 - Pow2(8 - OctetBits(p, 3)), 256 - Pow2(8 - OctetBits(p, 4))>>

\* _prefix_from_ip_int: the prefix length, or -1 where it raises ValueError
\* (the bits left of the trailing zeros are not all ones).
PrefixFromIpInt(m) == LET p == 32 - TrailingZeros(m) IN IF m = NetmaskOctets(p) THEN p ELSE -1

\* _make_netmask for a dotted argument: netmask first, then hostmask.
PrefixFromDotted(m) == IF PrefixFromIpInt(m) >= 0 THEN PrefixFromIpInt(m) ELSE PrefixFromIpInt(<<255 - m[1], 255 - m[2], 255 - m[3], 255 - m[4]>>)

\* str.isdigit()
IsDigit(s) == Len(s) = 1 /\ s[1] >= 0

\* IPv4Network(f"0.0.0.0/{netmask}").prefixlen, -1 where it raises ValueError.
NetworkPrefixlen(netmask) == IF IsDigit(netmask) THEN (IF netmask[1] <= 32 THEN netmask[1] ELSE -1) ELSE IF ValidIPv4(netmask) THEN PrefixFromDotted(netmask) ELSE -1

\* str(IPv4Network(f"{ip}/{prefix}", strict=False)); <<>> where it raises
\* ValueError.
IPv4NetworkStr(ip, prefix) == IF ValidIPv4(ip) /\ prefix >= 0 /\ prefix <= 32 THEN <<MaskOctets(ip, prefix), prefix>> ELSE <<>>

----------------------------------------------------------------------------
(* AddressResolver *)

Ok(v) == [err |-> FALSE, val |-> v]

\* raise ValueError(...)
ValueError == [err |-> TRUE, val |-> <<>>]

\* netmask_to_prefix: an all-digit string is returned as int(netmask);
\* anything else goes through IPv4Network, whose ValueError is re-raised.
NetmaskToPrefix(netmask) == IF IsDigit(netmask) THEN Ok(netmask[1]) ELSE IF NetworkPrefixlen(netmask) >= 0 THEN Ok(NetworkPrefixlen(netmask)) ELSE ValueError

\* calculate_network_address
CalculateNetworkAddress(ip_str, netmask_str) == LET prefix == NetmaskToPrefix(netmask_str) IN IF prefix.err THEN ValueError ELSE IF IPv4NetworkStr(ip_str, prefix.val) = <<>> THEN ValueError ELSE Ok(IPv4NetworkStr(ip_str, prefix.val))

----------------------------------------------------------------------------
(* InterfaceClassifier *)

S_MEth == <<"M", "E", "t", "h">>

S_Vbdif == <<"V", "b", "d", "i", "f">>

S_Vlanif == <<"V", "l", "a", "n", "i", "f">>

S_LoopBack == <<"L", "o", "o", "p", "B", "a", "c", "k">>

S_NULL == <<"N", "U", "L", "L">>

S_Vbdif1360837 == <<"V", "b", "d", "i", "f", "1", "3", "6", "0", "8", "3", "7">>

S_lo == <<"l", "o">>

S_100GE == <<"1", "0", "0", "G", "E">>

S_40GE == <<"4", "0", "G", "E">>

S_10GE == <<"1", "0", "G", "E">>

S_unknown == <<"u", "n", "k", "n", "o", "w", "n">>

\* is_physical_interface: a deny-list of name prefixes.
IsPhysicalInterface(interface_name) == ~StartsWithAny(interface_name, {S_MEth, S_Vbdif, S_Vlanif, S_LoopBack, S_NULL})

\* is_mgmt_interface
IsMgmtInterface(interface_name, is_mgmt_network) == StartsWithAny(interface_name, {S_MEth, S_Vbdif1360837}) \/ (is_mgmt_network /\ StartsWith(interface_name, S_Vbdif))

NonDigits(s) == \A i \in DOMAIN s : s[i] \notin DigitChars

DigitsOrSlash(s) == s # <<>> /\ \A i \in DOMAIN s : s[i] \in DigitChars \cup {"/"}

AllDigits(s) == s # <<>> /\ \A i \in DOMAIN s : s[i] \in DigitChars

\* The ends k of group 1 in the matches of ^([^\d]*[\d/]+)(?:\.(\d+))?$
\* against name: name[1..k] is [^\d]* followed by a non-empty [\d/]+, and
\* the rest is empty or "." followed by digits.
InterfaceRegexEnds(name) == {k \in 1..Len(name) :
    /\ (k = Len(name) \/ (name[k + 1] = "." /\ AllDigits(SubSeq(name, k + 2, Len(name)))))
    /\ \E j \in 0..(k - 1) : NonDigits(SubSeq(name, 1, j)) /\ DigitsOrSlash(SubSeq(name, j + 1, k))}

\* extract_interface_number: <<base, subif>>; the name itself and no number
\* when the pattern does not match.
ExtractInterfaceNumber(interface_name) == LET ends == InterfaceRegexEnds(interface_name) IN IF ends = {} THEN <<interface_name, <<>>>> ELSE LET k == CHOOSE k \in ends : TRUE IN <<SubSeq(interface_name, 1, k), IF k = Len(interface_name) THEN <<>> ELSE <<ParseInt(SubSeq(interface_name, k + 2, Len(interface_name)))>>>>

\* The mask handling of extract_device_interfaces: int(mask) for an
\* all-digit mask, else netmask_to_prefix with `fallback` on ValueError.
MaskToPrefix(mask, fallback) == IF IsDigit(mask) THEN mask[1] ELSE IF NetmaskToPrefix(mask).err THEN fallback ELSE NetmaskToPrefix(mask).val

\* The network_cidr of an all_ip_interfaces entry: the network address, or
\* f"{ip}/{prefix}" when IPv4Network raises ValueError.
NetworkCidr(ip, prefix) == IF IPv4NetworkStr(ip, prefix) = <<>> THEN <<ip, prefix>> ELSE IPv4NetworkStr(ip, prefix)

\* intf_data of an all_ip_interfaces entry (description is not modelled:
\* nothing reads it).
IntfData(e) == LET prefix == MaskToPrefix(e.mask, 32)
                   number == ExtractInterfaceNumber(e.interface) IN
  [interface |-> e.interface,
   base_interface |-> number[1],
   subif_numbers |-> number[2],
   ip |-> e.ip,
   prefix |-> prefix,
   network_cidr |-> NetworkCidr(e.ip, prefix),
   is_physical |-> IsPhysicalInterface(e.interface),
   is_mgmt |-> IsMgmtInterface(e.interface, prefix \in {24, 23, 22}),
   is_loopback |-> StartsWith(Lower(e.interface), S_lo),
   is_p2p |-> prefix \in {31, 30},
   source |-> "all_ip"]

\* The role predicates of the filter_type branches.
PhysicalRole(d) == d.is_physical /\ d.is_p2p /\ ~d.is_loopback

MgmtRole(d) == d.is_mgmt /\ ~d.is_loopback

LogicalRole(d) == ~(d.is_loopback \/ d.is_mgmt \/ (d.is_physical /\ d.is_p2p))

\* TRUE when the entry is kept (no `continue`) under filter_type.
PassesFilter(d, filter_type) == CASE filter_type = "physical" -> PhysicalRole(d)
    [] filter_type = "mgmt" -> MgmtRole(d)
    [] filter_type = "logical" -> LogicalRole(d)
    [] OTHER -> TRUE

\* Loop 1 of extract_device_interfaces over all_ip_interfaces[i..], with
\* the processed_networks set and the interfaces list built so far.
RECURSIVE ExtractAllIp(_, _, _, _, _)
ExtractAllIp(entries, i, processed_networks, interfaces, filter_type) == IF i > Len(entries) THEN interfaces
  ELSE IF entries[i].interface = <<>> \/ entries[i].ip = <<>> THEN ExtractAllIp(entries, i + 1, processed_networks, interfaces, filter_type)
  ELSE LET d == IntfData(entries[i]) IN
    IF d.network_cidr \in processed_networks THEN ExtractAllIp(entries, i + 1, processed_networks, interfaces, filter_type)
    ELSE ExtractAllIp(entries, i + 1, processed_networks \cup {d.network_cidr}, IF PassesFilter(d, filter_type) THEN Append(interfaces, d) ELSE interfaces, filter_type)

\* The descriptor built from management_info.
MgmtIntfData(mgmt_info) == LET prefix == MaskToPrefix(mgmt_info.mgmt_mask, 24) IN
  [interface |-> mgmt_info.mgmt_interface,
   base_interface |-> mgmt_info.mgmt_interface,
   subif_numbers |-> <<>>,
   ip |-> mgmt_info.mgmt_ip,
   prefix |-> prefix,
   network_cidr |-> <<mgmt_info.mgmt_ip, prefix>>,
   is_physical |-> TRUE,
   is_mgmt |-> TRUE,
   is_loopback |-> FALSE,
   is_p2p |-> FALSE,
   source |-> "management"]

\* Part 2 of extract_device_interfaces: the management_info interface, added
\* under 'all' and 'mgmt' unless the same (interface, ip) is already listed.
AddManagement(device, interfaces, filter_type) == LET mgmt_info == device.management_info IN
  IF filter_type \notin {"all", "mgmt"} THEN interfaces
  ELSE IF mgmt_info.mgmt_interface = <<>> \/ mgmt_info.mgmt_ip = <<>> THEN interfaces
  ELSE IF \E i \in DOMAIN interfaces : interfaces[i].interface = mgmt_info.mgmt_interface /\ interfaces[i].ip = mgmt_info.mgmt_ip THEN interfaces
  ELSE Append(interfaces, MgmtIntfData(mgmt_info))

\* extract_device_interfaces(device, filter_type)
ExtractDeviceInterfaces(device, filter_type) == AddManagement(device, ExtractAllIp(device.all_ip_interfaces, 1, {}, <<>>, filter_type), filter_type)

----------------------------------------------------------------------------
(* LinkFinder *)

NoMeta == [vendor |-> "N/A", device_type |-> "N/A"]

\* The device_metadata dict comprehension over devices_data[i..].
RECURSIVE DeviceMetadata(_, _, _)
DeviceMetadata(devices, i, d) == IF i > Len(devices) THEN d
  ELSE IF devices[i].device_name = S_unknown THEN DeviceMetadata(devices, i + 1, d)
  ELSE DeviceMetadata(devices, i + 1, DictPut(d, devices[i].device_name, [vendor |-> devices[i].vendor, device_type |-> devices[i].device_type]))

\* device_metadata.get(name, {'vendor': 'N/A', 'device_type': 'N/A'})
MetaGet(device_metadata, name) == IF DictHas(device_metadata, name) THEN DictGet(device_metadata, name) ELSE NoMeta

\* The collecting loop without the test `device_name != 'unknown'`.
RECURSIVE CollectInterfaces_KeepUnknown(_, _, _, _)
CollectInterfaces_KeepUnknown(devices, i, d, filter_type) == IF i > Len(devices) THEN d
  ELSE CollectInterfaces_KeepUnknown(devices, i + 1, DictPut(d, devices[i].device_name, ExtractDeviceInterfaces(devices[i], filter_type)), filter_type)

\* The loop filling device_interfaces / all_interfaces: one dict entry per
\* device name other than 'unknown', holding that device's descriptors.
RECURSIVE CollectInterfaces(_, _, _, _)
CollectInterfaces(devices, i, d, filter_type) == IF i > Len(devices) THEN d
  ELSE IF devices[i].device_name = S_unknown THEN CollectInterfaces(devices, i + 1, d, filter_type)
  ELSE CollectInterfaces(devices, i + 1, DictPut(d, devices[i].device_name, ExtractDeviceInterfaces(devices[i], filter_type)), filter_type)

\* The (device_name, intf) pairs in the order of the nested loops
\* `for device_name, interfaces in d.items(): for intf in interfaces`.
RECURSIVE Endpoints(_, _)
Endpoints(d, i) == IF i > Len(d) THEN <<>> ELSE [j \in DOMAIN d[i][2] |-> <<d[i][1], d[i][2][j]>>] \o Endpoints(d, i + 1)

\* index.setdefault(intf['network_cidr'], []).append((device_name, intf))
\* for each pair of eps[i..].
RECURSIVE IndexByNetwork(_, _, _)
IndexByNetwork(eps, i, index) == IF i > Len(eps) THEN index ELSE IndexByNetwork(eps, i + 1, DictAppend(index, eps[i][2].network_cidr, eps[i]))

\* sorted([a, b]) for two strings.
SortedPair(a, b) == IF StrLess(b, a) THEN <<b, a>> ELSE <<a, b>>

PhysicalLink(ep1, ep2, network_cidr, device_metadata) == <<ep1[1], MetaGet(device_metadata, ep1[1]).vendor, MetaGet(device_metadata, ep1[1]).device_type, ep1[2].interface, ep1[2].ip, ep2[1], MetaGet(device_metadata, ep2[1]).vendor, MetaGet(device_metadata, ep2[1]).device_type, ep2[2].interface, ep2[2].ip, network_cidr>>

\* The guard `len(endpoints) < 2` in place of `len(endpoints) != 2`: it lets
\* a group of three endpoints through.
NotAPair_LessThanTwo(endpoints) == Len(endpoints) < 2

\* The guard that also skips a pair met in descending order of device name.
NotAPair_AscendingOnly(endpoints) == Len(endpoints) # 2 \/ StrLess(endpoints[2][1], endpoints[1][1])

\* TRUE when find_physical_links skips the group (`len(endpoints) != 2`).
NotAPair(endpoints) == Len(endpoints) # 2

\* The loop over network_index.items() of find_physical_links.
RECURSIVE FormPhysicalLinks(_, _, _, _, _)
FormPhysicalLinks(index, i, links, processed_pairs, device_metadata) == IF i > Len(index) THEN links
  ELSE LET network_cidr == index[i][1]
           endpoints == index[i][2]
       IN IF NotAPair(endpoints) THEN FormPhysicalLinks(index, i + 1, links, processed_pairs, device_metadata)
          ELSE LET pair_key == SortedPair(endpoints[1][1], endpoints[2][1]) \o <<network_cidr>>
               IN IF pair_key \in processed_pairs THEN FormPhysicalLinks(index, i + 1, links, processed_pairs, device_metadata)
                  ELSE FormPhysicalLinks(index, i + 1, Append(links, PhysicalLink(endpoints[1], endpoints[2], network_cidr, device_metadata)), processed_pairs \cup {pair_key}, device_metadata)

\* find_physical_links(devices_data)
FindPhysicalLinks(devices) == FormPhysicalLinks(IndexByNetwork(Endpoints(CollectInterfaces(devices, 1, <<>>, "physical"), 1), 1, <<>>), 1, <<>>, {}, DeviceMetadata(devices, 1, <<>>))

\* The rows appended by the loops of find_mgmt_interfaces for devices[i..].
RECURSIVE MgmtRows(_, _)
MgmtRows(devices, i) == IF i > Len(devices) THEN <<>>
  ELSE IF devices[i].device_name = S_unknown THEN MgmtRows(devices, i + 1)
  ELSE LET mgmt_ifs == ExtractDeviceInterfaces(devices[i], "mgmt")
       IN [j \in DOMAIN mgmt_ifs |-> <<devices[i].device_name, devices[i].vendor, devices[i].device_type, mgmt_ifs[j].interface, mgmt_ifs[j].ip, mgmt_ifs[j].network_cidr>>] \o MgmtRows(devices, i + 1)

\* (a[5], a[0]) < (b[5], b[0]) on the rows of find_mgmt_interfaces.
MgmtKeyLess(a, b) == StrLess(CidrStr(a[6]), CidrStr(b[6])) \/ (CidrStr(a[6]) = CidrStr(b[6]) /\ StrLess(a[1], b[1]))

\* list.sort(key=...) is stable: x goes behind every row whose key is not
\* greater than its own.
InsertRow(sorted, x) == LET n == Cardinality({k \in DOMAIN sorted : ~MgmtKeyLess(x, sorted[k])}) IN SubSeq(sorted, 1, n) \o <<x>> \o SubSeq(sorted, n + 1, Len(sorted))

\* The rows left in the order of the loops (no sort).
SortRows_Unsorted(rows, i, sorted) == rows

RECURSIVE SortRows(_, _, _)
SortRows(rows, i, sorted) == IF i > Len(rows) THEN sorted ELSE SortRows(rows, i + 1, InsertRow(sorted, rows[i]))

\* find_mgmt_interfaces(devices_data)
FindMgmtInterfaces(devices) == SortRows(MgmtRows(devices, 1), 1, <<>>)

\* The row appended to logical_links; f"{interface}/{ip}" is the pair
\* <<interface, ip>> and the description the pair <<text, cidr or vni>>.
LogicalLink(ep1, ep2, description, device_metadata) == <<ep1[1], MetaGet(device_metadata, ep1[1]).vendor, MetaGet(device_metadata, ep1[1]).device_type, <<ep1[2].interface, ep1[2].ip>>, ep2[1], MetaGet(device_metadata, ep2[1]).vendor, MetaGet(device_metadata, ep2[1]).device_type, <<ep2[2].interface, ep2[2].ip>>, description>>

\* The pairs (endpoints[i], endpoints[j]), i < j, in the order of the nested
\* range loops, starting at (i, j).
RECURSIVE EndpointPairs(_, _, _)
EndpointPairs(endpoints, i, j) == IF i > Len(endpoints) THEN <<>>
  ELSE IF j > Len(endpoints) THEN EndpointPairs(endpoints, i + 1, i + 2)
  ELSE <<(<<endpoints[i], endpoints[j]>>)>> \o EndpointPairs(endpoints, i, j + 1)

\* Pass 1 selects bridge interfaces with a /24../28 prefix.
IsServiceEndpoint(ep) == StartsWithAny(ep[2].interface, {S_Vbdif, S_Vlanif}) /\ 24 <= ep[2].prefix /\ ep[2].prefix <= 28 /\ ~ep[2].is_loopback

\* The links one service network gives: one for each pair of its endpoints.
ServiceLinks(endpoints, network_cidr, device_metadata) == LET ps == EndpointPairs(endpoints, 1, 2) IN [k \in DOMAIN ps |-> LogicalLink(ps[k][1], ps[k][2], <<"Service Network", network_cidr>>, device_metadata)]

\* The loop over network_to_devices.items(); st carries logical_links and
\* processed_networks.
RECURSIVE FormServiceLinks(_, _, _, _)
FormServiceLinks(index, i, st, device_metadata) == IF i > Len(index) THEN st
  ELSE IF Len(index[i][2]) < 2 \/ index[i][1] \in st.processed_networks THEN FormServiceLinks(index, i + 1, st, device_metadata)
  ELSE FormServiceLinks(index, i + 1, [links |-> st.links \o ServiceLinks(index[i][2], index[i][1], device_metadata), processed_networks |-> st.processed_networks \cup {index[i][1]}], device_metadata)

\* The sub-interface name test of pass 2.
HasOverlayName(intf) == intf.subif_numbers # <<>> /\ StartsWithAny(intf.base_interface, {S_100GE, S_40GE, S_10GE})

VniMin == 1000

VniMax == 16777215

\* Pass 2 selects sub-interfaces whose number is a VNI.
IsOverlayEndpoint(ep) == HasOverlayName(ep[2]) /\ VniMin <= ep[2].subif_numbers[1] /\ ep[2].subif_numbers[1] <= VniMax

\* vni_map.setdefault(vni, []).append((device_name, intf))
RECURSIVE IndexByVni(_, _, _)
IndexByVni(eps, i, index) == IF i > Len(eps) THEN index ELSE IndexByVni(eps, i + 1, DictAppend(index, eps[i][2].subif_numbers[1], eps[i]))

\* base_intf_groups.setdefault(intf['base_interface'], []).append(...)
RECURSIVE IndexByBase(_, _, _)
IndexByBase(eps, i, index) == IF i > Len(eps) THEN index ELSE IndexByBase(eps, i + 1, DictAppend(index, eps[i][2].base_interface, eps[i]))

\* The candidate pairs of one VNI, group by group; a VNI with fewer than
\* two endpoints and a group with fewer than two members give none.
RECURSIVE GroupPairs(_, _)
GroupPairs(groups, g) == IF g > Len(groups) THEN <<>> ELSE (IF Len(groups[g][2]) < 2 THEN <<>> ELSE EndpointPairs(groups[g][2], 1, 2)) \o GroupPairs(groups, g + 1)

VniPairs(endpoints) == IF Len(endpoints) < 2 THEN <<>> ELSE GroupPairs(IndexByBase(endpoints, 1, <<>>), 1)

\* (min(dev1, dev2), max(dev1, dev2), vni)
VniPairKey(dev1, dev2, vni) == SortedPair(dev1, dev2) \o <<vni>>

\* The innermost loop of pass 2 over the candidate pairs ps[k..] of one VNI;
\* st carries logical_links and processed_vni_pairs.
RECURSIVE FormVniLinks(_, _, _, _, _)
FormVniLinks(ps, k, vni, st, device_metadata) == IF k > Len(ps) THEN st
  ELSE LET pair_key == VniPairKey(ps[k][1][1], ps[k][2][1], vni)
       IN IF pair_key \in st.processed_vni_pairs THEN FormVniLinks(ps, k + 1, vni, st, device_metadata)
          ELSE FormVniLinks(ps, k + 1, vni, [links |-> Append(st.links, LogicalLink(ps[k][1], ps[k][2], <<"VXLAN VNI", vni>>, device_metadata)), processed_vni_pairs |-> st.processed_vni_pairs \cup {pair_key}], device_metadata)

\* The loop over vni_map.items().
RECURSIVE FormOverlayLinks(_, _, _, _)
FormOverlayLinks(vni_map, i, st, device_metadata) == IF i > Len(vni_map) THEN st ELSE FormOverlayLinks(vni_map, i + 1, FormVniLinks(VniPairs(vni_map[i][2]), 1, vni_map[i][1], st, device_metadata), device_metadata)

\* Pass 3 selects /30 interfaces other than physical 100GE/40GE ones.
IsLogicalP2PEndpoint(ep) == ep[2].prefix = 30 /\ ~ep[2].is_loopback /\ ~(ep[2].is_physical /\ StartsWithAny(ep[2].interface, {S_100GE, S_40GE}))

\* The loop over p2p30_networks.items().
RECURSIVE FormLogicalP2PLinks(_, _, _, _)
FormLogicalP2PLinks(index, i, st, device_metadata) == IF i > Len(index) THEN st
  ELSE IF Len(index[i][2]) # 2 \/ index[i][1] \in st.processed_networks THEN FormLogicalP2PLinks(index, i + 1, st, device_metadata)
  ELSE FormLogicalP2PLinks(index, i + 1, [links |-> Append(st.links, LogicalLink(index[i][2][1], index[i][2][2], <<"Logical P2P", index[i][1]>>, device_metadata)), processed_networks |-> st.processed_networks \cup {index[i][1]}], device_metadata)

\* all_interfaces of find_logical_links: filter_type='all'.
AllInterfaces(devices) == CollectInterfaces(devices, 1, <<>>, "all")

\* find_logical_links(devices_data): the three passes in sequence.
FindLogicalLinks(devices) == LET device_metadata == DeviceMetadata(devices, 1, <<>>)
      eps == Endpoints(AllInterfaces(devices), 1)
      s1 == FormServiceLinks(IndexByNetwork(SelectSeq(eps, IsServiceEndpoint), 1, <<>>), 1, [links |-> <<>>, processed_networks |-> {}], device_metadata)
      s2 == FormOverlayLinks(IndexByVni(SelectSeq(eps, IsOverlayEndpoint), 1, <<>>), 1, [links |-> s1.links, processed_vni_pairs |-> {}], device_metadata)
      s3 == FormLogicalP2PLinks(IndexByNetwork(SelectSeq(eps, IsLogicalP2PEndpoint), 1, <<>>), 1, [links |-> s2.links, processed_networks |-> s1.processed_networks], device_metadata)
  IN s3.links

----------------------------------------------------------------------------
(* Inputs: the records the extraction step hands over *)

\* "100GE1/0/1"
N_100GE1 == <<"1", "0", "0", "G", "E", "1", "/", "0", "/", "1">>

\* "100GE1/0/61.1700"
N_100GE61_1700 == <<"1", "0", "0", "G", "E", "1", "/", "0", "/", "6", "1", ".", "1", "7", "0", "0">>

\* "GE1/0/1"
N_GE1 == <<"G", "E", "1", "/", "0", "/", "1">>

\* "GE1/0/1.1700"
N_GE1_1700 == <<"G", "E", "1", "/", "0", "/", "1", ".", "1", "7", "0", "0">>

\* "Vlanif10"
N_Vlanif10 == <<"V", "l", "a", "n", "i", "f", "1", "0">>

\* "Vbdif100"
N_Vbdif100 == <<"V", "b", "d", "i", "f", "1", "0", "0">>

\* "MEth0/0/0"
N_MEth0 == <<"M", "E", "t", "h", "0", "/", "0", "/", "0">>

\* "Mgmt0"
N_Mgmt0 == <<"M", "g", "m", "t", "0">>

\* "Loopback0"
N_Loopback0 == <<"L", "o", "o", "p", "b", "a", "c", "k", "0">>

\* "R1"
D_R1 == <<"R", "1">>

\* "R2"
D_R2 == <<"R", "2">>

\* "R3"
D_R3 == <<"R", "3">>

Raw(interface, ip, mask) == [interface |-> interface, ip |-> ip, mask |-> mask]

Mgmt(interface, ip, mask) == [mgmt_interface |-> interface, mgmt_ip |-> ip, mgmt_mask |-> mask]

\* A device without management_info.
NoMgmt == Mgmt(<<>>, <<>>, <<>>)

\* The all_ip_interfaces entries the topology runs draw from: two ends of a
\* /31 (prefix and dotted mask), a /30 on a GE port, two bridge interfaces
\* of one /24, a 100GE sub-interface numbered with a VNI, and an address
\* that is not an IPv4 address.
TopoRaw == <<Raw(N_100GE1, <<10, 0, 0, 0>>, <<31>>),
  Raw(N_100GE1, <<10, 0, 0, 1>>, <<255, 255, 255, 254>>),
  Raw(N_GE1, <<10, 0, 0, 2>>, <<30>>),
  Raw(N_Vlanif10, <<172, 16, 5, 1>>, <<24>>),
  Raw(N_Vbdif100, <<172, 16, 5, 2>>, <<255, 255, 255, 0>>),
  Raw(N_100GE61_1700, <<10, 1, 0, 1>>, <<24>>),
  Raw(N_100GE1, <<10, 0, 0, 256>>, <<31>>)>>

\* The management_info records the topology runs draw from (0 is none):
\* Mgmt0 with 10.7.8.5/24, and a bridge interface whose address has no host
\* bits set.
TopoMgmt == <<Mgmt(N_Mgmt0, <<10, 7, 8, 5>>, <<24>>), Mgmt(N_Vbdif100, <<172, 16, 5, 0>>, <<24>>)>>

\* The device names of a run, by position; 'unknown' is an unresolved name,
\* and two records may carry one name.
NameVectors == {<<D_R1, D_R2, D_R3>>, <<D_R1, S_unknown, D_R2>>, <<D_R1, D_R1, D_R2>>}

Vendors == <<"huawei", "b4com", "cisco">>

DeviceTypes == <<"switch", "router", "firewall">>

\* Bound: interfaces (all_ip_interfaces entries and management_info records)
\* of one run, over all its devices.
MaxInterfaces == 3

\* Bound: all_ip_interfaces entries of the device of an extraction run.
MaxRaw == 2

\* Bound: the all-digit masks of a resolver run are "0" .. str(MaxMaskNumber).
MaxMaskNumber == 34

Device(name, i, raws, m, rawCat, mgmtCat) == [device_name |-> name, vendor |-> Vendors[i], device_type |-> DeviceTypes[i], all_ip_interfaces |-> [j \in DOMAIN raws |-> rawCat[raws[j]]], management_info |-> IF m = 0 THEN NoMgmt ELSE mgmtCat[m]]

MgmtCost(m) == IF m = 0 THEN 0 ELSE 1

\* The device lists of the topology runs: three devices that share at most
\* MaxInterfaces interfaces.
IsTopoInput(devices) == \E nv \in NameVectors : \E m \in [1..3 -> 0..Len(TopoMgmt)] : \E n1 \in 0..MaxInterfaces, n2 \in 0..MaxInterfaces, n3 \in 0..MaxInterfaces :
    /\ n1 + n2 + n3 + MgmtCost(m[1]) + MgmtCost(m[2]) + MgmtCost(m[3]) <= MaxInterfaces
    /\ \E r1 \in [1..n1 -> DOMAIN TopoRaw], r2 \in [1..n2 -> DOMAIN TopoRaw], r3 \in [1..n3 -> DOMAIN TopoRaw] :
         devices = <<Device(nv[1], 1, r1, m[1], TopoRaw, TopoMgmt), Device(nv[2], 2, r2, m[2], TopoRaw, TopoMgmt), Device(nv[3], 3, r3, m[3], TopoRaw, TopoMgmt)>>

----------------------------------------------------------------------------
(* analyze_topology: the three finders, in the order of the dict display *)

Init == /\ pc = "analyze"
  /\ IsTopoInput(devices_data)
  /\ physical_links = <<>>
  /\ mgmt_networks = <<>>
  /\ logical_links = <<>>
  /\ call = <<>>
  /\ ret = <<>>

CallFindPhysicalLinks == /\ pc = "analyze"
  /\ physical_links' = FindPhysicalLinks(devices_data)
  /\ pc' = "physical"
  /\ UNCHANGED <<devices_data, mgmt_networks, logical_links, call, ret>>

CallFindMgmtInterfaces == /\ pc = "physical"
  /\ mgmt_networks' = FindMgmtInterfaces(devices_data)
  /\ pc' = "mgmt"
  /\ UNCHANGED <<devices_data, physical_links, logical_links, call, ret>>

CallFindLogicalLinks == /\ pc = "mgmt"
  /\ logical_links' = FindLogicalLinks(devices_data)
  /\ pc' = "done"
  /\ UNCHANGED <<devices_data, physical_links, mgmt_networks, call, ret>>

Next == CallFindPhysicalLinks \/ CallFindMgmtInterfaces \/ CallFindLogicalLinks

Spec == Init /\ [][Next]_vars

----------------------------------------------------------------------------
(* extract_device_interfaces on one device, under each filter_type *)

\* The (ip, mask) pairs of the extraction runs: two addresses of one /30
\* (prefix and dotted mask), a /24, an all-digit mask above 32, a mask that
\* is no mask at all, and an address that is not an IPv4 address.
ExtractAddrs == <<(<<(<<10, 0, 0, 1>>), <<30>>>>),
  (<<(<<10, 0, 0, 2>>), <<255, 255, 255, 252>>>>),
  (<<(<<10, 7, 8, 5>>), <<24>>>>),
  (<<(<<10, 7, 8, 5>>), <<99>>>>),
  (<<(<<10, 7, 8, 9>>), <<-1>>>>),
  (<<(<<10, 0, 0, 256>>), <<30>>>>)>>

ExtractNames == <<N_100GE1, N_Vbdif100, N_MEth0, N_Loopback0>>

\* Every name with every (ip, mask) pair.
ExtractRaw == [k \in 1..(Len(ExtractNames) * Len(ExtractAddrs)) |-> Raw(ExtractNames[((k - 1) \div Len(ExtractAddrs)) + 1], ExtractAddrs[((k - 1) % Len(ExtractAddrs)) + 1][1], ExtractAddrs[((k - 1) % Len(ExtractAddrs)) + 1][2])]

\* The management_info records of the extraction runs; the last two name a
\* port that all_ip_interfaces may list as well, and an address without
\* host bits.
ExtractMgmt == <<Mgmt(N_Mgmt0, <<10, 7, 8, 5>>, <<24>>), Mgmt(N_MEth0, <<10, 7, 8, 5>>, <<255, 255, 255, 0>>), Mgmt(N_Mgmt0, <<10, 7, 8, 5>>, <<99>>), Mgmt(N_100GE1, <<10, 7, 8, 5>>, <<24>>), Mgmt(N_Mgmt0, <<10, 0, 0, 0>>, <<30>>)>>

FilterTypes == {"all", "physical", "mgmt", "logical"}

InitExtract == /\ pc = "extract"
  /\ \E n \in 0..MaxRaw : \E raws \in [1..n -> DOMAIN ExtractRaw] : \E m \in 0..Len(ExtractMgmt) : devices_data = <<Device(D_R1, 1, raws, m, ExtractRaw, ExtractMgmt)>>
  /\ physical_links = <<>>
  /\ mgmt_networks = <<>>
  /\ logical_links = <<>>
  /\ call = <<>>
  /\ ret = <<>>

CallExtractDeviceInterfaces == /\ pc = "extract"
  /\ \E filter_type \in FilterTypes :
       /\ call' = filter_type
       /\ ret' = ExtractDeviceInterfaces(devices_data[1], filter_type)
  /\ pc' = "extracted"
  /\ UNCHANGED <<devices_data, physical_links, mgmt_networks, logical_links>>

NextExtract == CallExtractDeviceInterfaces

SpecExtract == InitExtract /\ [][NextExtract]_vars

----------------------------------------------------------------------------
(* AddressResolver: netmask_to_prefix and calculate_network_address *)

MaskOctetValues == {0, 128, 254, 255}

\* The mask strings of the resolver runs: "0" .. str(MaxMaskNumber) and
\* "99", every dotted quad over MaskOctetValues, "", "abc" and "1.2.3".
ResolverMasks == {<<n>> : n \in 0..MaxMaskNumber} \cup {<<99>>, <<>>, <<-1>>, <<1, 2, 3>>} \cup (MaskOctetValues \X MaskOctetValues \X MaskOctetValues \X MaskOctetValues)

ResolverIPs == {<<10, 0, 0, 0>>, <<10, 0, 0, 1>>, <<10, 7, 8, 5>>, <<172, 16, 5, 255>>, <<255, 255, 255, 255>>, <<10, 0, 0, 256>>, <<10, 0, 0>>}

InitResolver == /\ pc = "resolve"
  /\ call \in ResolverIPs \X ResolverMasks
  /\ ret = <<>>
  /\ devices_data = <<>>
  /\ physical_links = <<>>
  /\ mgmt_networks = <<>>
  /\ logical_links = <<>>

CallNetmaskToPrefix == /\ pc = "resolve"
  /\ ret' = NetmaskToPrefix(call[2])
  /\ pc' = "netmask_to_prefix"
  /\ UNCHANGED <<devices_data, physical_links, mgmt_networks, logical_links, call>>

CallCalculateNetworkAddress == /\ pc = "resolve"
  /\ ret' = CalculateNetworkAddress(call[1], call[2])
  /\ pc' = "calculate_network_address"
  /\ UNCHANGED <<devices_data, physical_links, mgmt_networks, logical_links, call>>

\* calculate_network_address once more with the same mask, on the address
\* part of the CIDR just returned or on another address of the run.
CallCalculateNetworkAddressAgain == /\ pc = "calculate_network_address"
  /\ ~ret.err
  /\ (\E ip_str \in ResolverIPs \cup {ret.val[1]} :
       ret' = [ip_str |-> ip_str, first |-> ret, second |-> CalculateNetworkAddress(ip_str, call[2])])
  /\ pc' = "recalculated"
  /\ UNCHANGED <<devices_data, physical_links, mgmt_networks, logical_links, call>>

NextResolver == CallNetmaskToPrefix \/ CallCalculateNetworkAddress \/ CallCalculateNetworkAddressAgain

SpecResolver == InitResolver /\ [][NextResolver]_vars

----------------------------------------------------------------------------
(* analyze_topology on an input and on a rearrangement of the same input *)

\* The all_ip_interfaces entries of the rearrangement runs: the two ends of
\* a /31 and a bridge interface of a /24.
VariantRaw == <<Raw(N_100GE1, <<10, 0, 0, 0>>, <<31>>),
  Raw(N_100GE1, <<10, 0, 0, 1>>, <<255, 255, 255, 254>>),
  Raw(N_Vbdif100, <<172, 16, 5, 2>>, <<255, 255, 255, 0>>)>>

VariantMgmt == <<Mgmt(N_MEth0, <<10, 7, 8, 5>>, <<24>>)>>

\* Device names by position: R2 ahead of R1, an unresolved name, and two
\* records of one name.
VariantNames == {<<D_R2, S_unknown, D_R1>>, <<D_R1, D_R2, D_R3>>, <<D_R2, D_R1, D_R1>>}

\* Bound: interfaces of one rearrangement run, over all its devices.
MaxVariantInterfaces == 3

IsVariantInput(devices) == \E nv \in VariantNames : \E m \in [1..3 -> 0..Len(VariantMgmt)] : \E n1 \in 0..MaxVariantInterfaces, n2 \in 0..MaxVariantInterfaces, n3 \in 0..MaxVariantInterfaces :
    /\ n1 + n2 + n3 + MgmtCost(m[1]) + MgmtCost(m[2]) + MgmtCost(m[3]) <= MaxVariantInterfaces
    /\ \E r1 \in [1..n1 -> DOMAIN VariantRaw], r2 \in [1..n2 -> DOMAIN VariantRaw], r3 \in [1..n3 -> DOMAIN VariantRaw] :
         devices = <<Device(nv[1], 1, r1, m[1], VariantRaw, VariantMgmt), Device(nv[2], 2, r2, m[2], VariantRaw, VariantMgmt), Device(nv[3], 3, r3, m[3], VariantRaw, VariantMgmt)>>

\* The rearrangements: <<0, 0>> leaves out the records named 'unknown',
\* <<i, j>> exchanges the records at positions i and j.
Rearrangements == {<<0, 0>>, <<1, 2>>, <<1, 3>>, <<2, 3>>}

WithoutUnknown(devices) == SelectSeq(devices, LAMBDA d : d.device_name # S_unknown)

Swapped(devices, i, j) == [k \in DOMAIN devices |-> IF k = i THEN devices[j] ELSE IF k = j THEN devices[i] ELSE devices[k]]

Rearranged(devices, r) == IF r = <<0, 0>> THEN WithoutUnknown(devices) ELSE Swapped(devices, r[1], r[2])

\* analyze_topology(devices): the dict of the three link lists.
AnalyzeTopology(devices) == [physical_links |-> FindPhysicalLinks(devices), mgmt_networks |-> FindMgmtInterfaces(devices), logical_links |-> FindLogicalLinks(devices)]

InitVariant == /\ pc = "variant"
  /\ IsVariantInput(devices_data)
  /\ call \in Rearrangements
  /\ physical_links = <<>>
  /\ mgmt_networks = <<>>
  /\ logical_links = <<>>
  /\ ret = <<>>

\* analyze_topology, called on devices_data first and on the rearranged
\* records second; the second result is kept in ret.
CallAnalyzeTopology == /\ pc \in {"variant", "analyzed"}
  /\ (\E devices \in {IF pc = "variant" THEN devices_data ELSE Rearranged(devices_data, call)} :
       \E r \in {AnalyzeTopology(devices)} :
         IF pc = "variant"
         THEN /\ physical_links' = r.physical_links
              /\ mgmt_networks' = r.mgmt_networks
              /\ logical_links' = r.logical_links
              /\ pc' = "analyzed"
              /\ ret' = ret
         ELSE /\ ret' = r
              /\ pc' = "compared"
              /\ UNCHANGED <<physical_links, mgmt_networks, logical_links>>)
  /\ UNCHANGED <<devices_data, call>>

NextVariant == CallAnalyzeTopology

SpecVariant == InitVariant /\ [][NextVariant]_vars

----------------------------------------------------------------------------
(* extract_interface_number on one interface name *)

\* The stems of the names: port and bridge names with and without leading
\* digits.
NameStems == {<<"G", "E">>, S_100GE, S_10GE, S_40GE, S_Vlanif, S_Vbdif, <<"E", "t", "h">>}

\* "1", "1/0/61", "1/0/46", "10"
NameNumbers == {<<"1">>, <<"1", "/", "0", "/", "6", "1">>, <<"1", "/", "0", "/", "4", "6">>, <<"1", "0">>}

\* No suffix, ".1700", ".5", ".999", a lone "." and ".x".
NameSuffixes == {<<>>, <<".", "1", "7", "0", "0">>, <<".", "5">>, <<".", "9", "9", "9">>, <<".">>, <<".", "x">>}

InterfaceNames == {stem \o number \o suffix : stem \in NameStems, number \in NameNumbers, suffix \in NameSuffixes}

InitNumber == /\ pc = "name"
  /\ call \in InterfaceNames
  /\ ret = <<>>
  /\ devices_data = <<>>
  /\ physical_links = <<>>
  /\ mgmt_networks = <<>>
  /\ logical_links = <<>>

CallExtractInterfaceNumber == /\ pc = "name"
  /\ ret' = ExtractInterfaceNumber(call)
  /\ pc' = "extract_interface_number"
  /\ UNCHANGED <<devices_data, physical_links, mgmt_networks, logical_links, call>>

NextNumber == CallExtractInterfaceNumber

SpecNumber == InitNumber /\ [][NextNumber]_vars

----------------------------------------------------------------------------
(* NetworkVisualizer: the layout strategies.  An object is a dictionary    *)
(* with an id and, when given, width, height and pattern; objects is       *)
(* {'devices': ..., 'networks': ..., 'links': ...}, each dictionary of     *)
(* objects a sequence in insertion order.  Sizes are whole units;          *)
(* coordinates and distances are held in tenths of a unit, and a quotient  *)
(* is cut to a whole tenth.                                                *)

Max(a, b) == IF a >= b THEN a ELSE b

Min(a, b) == IF a <= b THEN a ELSE b

Abs(a) == IF a >= 0 THEN a ELSE -a

\* a / b for b > 0, cut towards zero.
Quot(a, b) == IF a >= 0 THEN a \div b ELSE -((-a) \div b)

RECURSIVE ISqrtFrom(_, _)
ISqrtFrom(n, r) == LET s == (r + n \div r) \div 2 IN IF s >= r THEN r ELSE ISqrtFrom(n, s)

\* math.sqrt, cut to a whole number.
ISqrt(n) == IF n < 2 THEN n ELSE ISqrtFrom(n, n)

\* math.ceil(math.sqrt(n))
CeilSqrt(n) == CHOOSE c \in 0..n : c * c >= n /\ (c = 0 \/ (c - 1) * (c - 1) < n)

\* math.ceil(n / cols)
CeilDiv(n, cols) == (n + cols - 1) \div cols

\* A length in units, in tenths.
Deci(u) == 10 * u

\* round() of a value in tenths: to the nearest unit, a half to the even one.
Round(d) == LET q == d \div 10
                r == d % 10
            IN IF r < 5 THEN 10 * q ELSE IF r > 5 THEN 10 * (q + 1) ELSE IF q % 2 = 0 THEN 10 * q ELSE 10 * (q + 1)

\* dict.get(key, default)
Get(obj, key, default) == IF key \in DOMAIN obj THEN obj[key] ELSE default

DefaultSize == 50

Width(obj) == Get(obj, "width", DefaultSize)

Height(obj) == Get(obj, "height", DefaultSize)

\* all_objects: the devices, then the networks.
AllObjects(objects) == objects.devices \o objects.networks

IsDevice(objects, obj_id) == \E i \in DOMAIN objects.devices : objects.devices[i].id = obj_id

\* objects[...][obj_id]['x'] = x; objects[...][obj_id]['y'] = y
Placed(obj, x, y) == [id |-> obj.id, x |-> x, y |-> y]

\* The point of angle i * 2 * pi / n on the circle of the given radius, for
\* the angles 0 and pi (sin(pi), 1.2e-16 in floating point, taken as 0).
CirclePoint(n, i, radius) == IF i = 0 THEN <<radius, 0>> ELSE <<-radius, 0>>

\* (n * (size + padding)) / (2 * math.pi), in tenths.
ArcRadius(n, size, padding) == Quot(n * (size + padding) * 100000, 62832)

RECURSIVE MaxSize(_, _, _)
MaxSize(group, i, m) == IF i > Len(group) THEN m ELSE MaxSize(group, i + 1, Max(Max(m, Width(group[i])), Height(group[i])))

\* A group of objects placed on one circle, the coordinates rounded.
PlaceOnCircle(group, radius) == [i \in DOMAIN group |->
    LET p == CirclePoint(Len(group), i - 1, radius)
    IN Placed(group[i], Round(p[1] - Deci(Width(group[i])) \div 2), Round(p[2] - Deci(Height(group[i])) \div 2))]

CircularPadding == 20

CircularCircularPadding == 250

\* layout_algorithm_circular with its default paddings, for at most one
\* device and one network (one pattern group on each circle).
LayoutCircular(objects) ==
    LET devices == objects.devices
        networks == objects.networks
        devices_inner == Len(devices) <= Len(networks)
        inner_group == IF devices_inner THEN devices ELSE networks
        outer_group == IF devices_inner THEN networks ELSE devices
        max_inner_size == MaxSize(inner_group, 1, 0)
        max_outer_size == MaxSize(outer_group, 1, 0)
        max_obj_size == Max(max_inner_size, max_outer_size)
        n_inner == Len(inner_group)
        n_outer == Len(outer_group)
        inner_radius == IF n_inner > 0 THEN Max(ArcRadius(n_inner, max_inner_size, CircularPadding), Deci(max_inner_size + CircularPadding)) ELSE 0
        outer_radius == IF n_outer > 0
                        THEN Max(ArcRadius(n_outer, max_outer_size, CircularPadding), inner_radius + Deci(Max(max_inner_size, max_outer_size) + CircularCircularPadding))
                        ELSE inner_radius + Deci(max_obj_size + CircularCircularPadding)
        inner == PlaceOnCircle(inner_group, inner_radius)
        outer == PlaceOnCircle(outer_group, outer_radius)
    IN IF devices_inner THEN inner \o outer ELSE outer \o inner

\* The cells of a grid walk: every item <<width, height>> gets the current
\* corner, and the row wraps after cols items.
RECURSIVE GridWalk(_, _, _, _, _, _, _, _)
GridWalk(items, cols, pad, i, x, y, max_row_height, acc) ==
    IF i > Len(items) THEN acc
    ELSE LET row_height == Max(max_row_height, items[i][2])
             wrap == i % cols = 0
         IN GridWalk(items, cols, pad, i + 1,
                     IF wrap THEN 0 ELSE x + items[i][1] + pad,
                     IF wrap THEN y + row_height + pad ELSE y,
                     IF wrap THEN 0 ELSE row_height,
                     Append(acc, <<x, y>>))

Sizes(group) == [i \in DOMAIN group |-> <<Width(group[i]), Height(group[i])>>]

RECURSIVE PatternsOf(_, _, _)
PatternsOf(networks, i, acc) ==
    IF i > Len(networks) THEN acc
    ELSE LET p == Get(networks[i], "pattern", 0)
         IN PatternsOf(networks, i + 1, IF \E k \in DOMAIN acc : acc[k] = p THEN acc ELSE Append(acc, p))

\* all_groups: the devices, then the networks of each pattern.
AllGroups(objects) ==
    LET ps == PatternsOf(objects.networks, 1, <<>>)
    IN <<objects.devices>> \o [k \in DOMAIN ps |-> SelectSeq(objects.networks, LAMBDA n : Get(n, "pattern", 0) = ps[k])]

RECURSIVE SeqMax(_, _, _)
SeqMax(s, i, m) == IF i > Len(s) THEN m ELSE SeqMax(s, i + 1, Max(m, s[i]))

GridPadding == 50

GridGroupPadding == 30

\* The relative corners of the objects of one group.
GroupRelativePositions(group) == GridWalk(Sizes(group), CeilSqrt(Len(group)), GridPadding, 1, 0, 0, 0, <<>>)

\* group_bounds: the padded width and height of one group.
GroupBounds(group) ==
    LET rel == GroupRelativePositions(group)
        max_x == SeqMax([i \in DOMAIN rel |-> rel[i][1]], 1, 0)
        max_y == SeqMax([i \in DOMAIN rel |-> rel[i][2]], 1, 0)
        last_obj == group[Len(group)]
    IN <<max_x + Width(last_obj) + 2 * GridPadding, max_y + Height(last_obj) + 2 * GridPadding>>

\* layout_algorithm_grid with its default paddings.
LayoutGrid(objects) ==
    LET groups == SelectSeq(AllGroups(objects), LAMBDA g : Len(g) > 0)
        bounds == [k \in DOMAIN groups |-> GroupBounds(groups[k])]
        macro == GridWalk(bounds, CeilSqrt(Len(groups)), GridGroupPadding, 1, 0, 0, 0, <<>>)
        RECURSIVE Cells(_, _)
        Cells(k, acc) ==
            IF k > Len(groups) THEN acc
            ELSE LET rel == GroupRelativePositions(groups[k])
                 IN Cells(k + 1, acc \o [i \in DOMAIN rel |->
                        Placed(groups[k][i], Round(Deci(macro[k][1] + rel[i][1] + GridPadding)), Round(Deci(macro[k][2] + rel[i][2] + GridPadding)))])
    IN Cells(1, <<>>)

\* graph[obj_id]: the other ends of the links of obj_id, each once, in link
\* order.
RECURSIVE Neighbours(_, _, _, _)
Neighbours(links, obj_id, i, acc) ==
    IF i > Len(links) THEN acc
    ELSE LET l == links[i]
             other == IF l.source = obj_id THEN <<l.target>> ELSE <<>>
             back == IF l.target = obj_id THEN <<l.source>> ELSE <<>>
             new1 == IF other # <<>> /\ ~\E k \in DOMAIN acc : acc[k] = other[1] THEN Append(acc, other[1]) ELSE acc
             new2 == IF back # <<>> /\ ~\E k \in DOMAIN new1 : new1[k] = back[1] THEN Append(new1, back[1]) ELSE new1
         IN Neighbours(links, obj_id, i + 1, new2)

ObjectIds(objects) == {AllObjects(objects)[i].id : i \in DOMAIN AllObjects(objects)}

\* The breadth-first walk of one cluster.
RECURSIVE ClusterFrom(_, _, _, _)
ClusterFrom(objects, queue, visited, cluster) ==
    IF queue = <<>> THEN <<cluster, visited>>
    ELSE LET current == Head(queue)
             ns == Neighbours(objects.links, current, 1, <<>>)
             fresh == SelectSeq(ns, LAMBDA n : n \notin visited /\ n \in ObjectIds(objects))
         IN ClusterFrom(objects, Tail(queue) \o fresh, visited \cup Range(fresh), Append(cluster, current))

\* clusters: the connected components, in object order.
RECURSIVE Clusters(_, _, _, _)
Clusters(objects, i, visited, acc) ==
    IF i > Len(AllObjects(objects)) THEN acc
    ELSE LET obj_id == AllObjects(objects)[i].id
         IN IF obj_id \in visited THEN Clusters(objects, i + 1, visited, acc)
            ELSE LET c == ClusterFrom(objects, <<obj_id>>, visited \cup {obj_id}, <<>>)
                 IN Clusters(objects, i + 1, c[2], Append(acc, c[1]))

ObjectOf(objects, obj_id) == AllObjects(objects)[CHOOSE i \in DOMAIN AllObjects(objects) : AllObjects(objects)[i].id = obj_id]

ClusteredPadding == 50

\* The objects of one cluster placed from current_x on.
PlaceCluster(objects, cluster, current_x) ==
    IF Len(cluster) = 1
    THEN <<Placed(ObjectOf(objects, cluster[1]), Deci(current_x), 0)>>
    ELSE LET cols == CeilSqrt(Len(cluster))
         IN [k \in DOMAIN cluster |->
                LET obj == ObjectOf(objects, cluster[k])
                    row == (k - 1) \div cols
                    col == (k - 1) % cols
                IN Placed(obj, Deci(current_x + col * (Width(obj) + ClusteredPadding)), Deci(row * (Height(obj) + ClusteredPadding)))]

\* An advance by the first object of the cluster only.
ClusterAdvance_FirstObject(objects, cluster) == Width(ObjectOf(objects, cluster[1])) + ClusteredPadding

\* The width a cluster takes of the row.
ClusterAdvance(objects, cluster) ==
    IF Len(cluster) = 1
    THEN Max(Width(ObjectOf(objects, cluster[1])), Height(ObjectOf(objects, cluster[1]))) + ClusteredPadding
    ELSE CeilSqrt(Len(cluster)) * (SeqMax([k \in DOMAIN cluster |-> Width(ObjectOf(objects, cluster[k]))], 1, 0) + ClusteredPadding)

RECURSIVE PlaceClusters(_, _, _, _, _)
PlaceClusters(objects, clusters, k, current_x, acc) ==
    IF k > Len(clusters) THEN acc
    ELSE PlaceClusters(objects, clusters, k + 1, current_x + ClusterAdvance(objects, clusters[k]), acc \o PlaceCluster(objects, clusters[k], current_x))

\* layout_algorithm_clustered with its default padding.
LayoutClustered(objects) ==
    IF Len(AllObjects(objects)) = 0 THEN <<>>
    ELSE PlaceClusters(objects, Clusters(objects, 1, {}, <<>>), 1, 0, <<>>)

\* The half-diagonal sum of two objects plus the padding:
\* (math.sqrt(w1**2 + h1**2) + math.sqrt(w2**2 + h2**2))/2 + padding
MinDistance(obj1, obj2, padding) ==
    (ISqrt(Deci(Width(obj1)) * Deci(Width(obj1)) + Deci(Height(obj1)) * Deci(Height(obj1)))
     + ISqrt(Deci(Width(obj2)) * Deci(Width(obj2)) + Deci(Height(obj2)) * Deci(Height(obj2)))) \div 2 + Deci(padding)

\* max(math.sqrt(dx*dx + dy*dy), 0.1)
Distance(dx, dy) == Max(ISqrt(dx * dx + dy * dy), 1)

\* x_overlap and y_overlap: the padded bounding boxes of two objects meet.
BoxesOverlap(pos1, pos2, obj1, obj2, padding) ==
    /\ Abs(pos1[1] - pos2[1]) < (Deci(Width(obj1)) \div 2 + Deci(Width(obj2)) \div 2 + Deci(padding))
    /\ Abs(pos1[2] - pos2[2]) < (Deci(Height(obj1)) \div 2 + Deci(Height(obj2)) \div 2 + Deci(padding))

\* The shift of one overlapping pair: each object moves half of min_dist
\* along the line between the centres, away from the other.
PushApart(positions, i, j, all_objects, padding) ==
    LET dx == positions[j][1] - positions[i][1]
        dy == positions[j][2] - positions[i][2]
        distance == Distance(dx, dy)
        min_dist == MinDistance(all_objects[i], all_objects[j], padding)
        move_x == Quot(dx * min_dist, 2 * distance)
        move_y == Quot(dy * min_dist, 2 * distance)
    IN [positions EXCEPT ![i] = <<positions[i][1] - move_x, positions[i][2] - move_y>>,
                         ![j] = <<positions[j][1] + move_x, positions[j][2] + move_y>>]

\* One round of _resolve_overlaps: every ordered pair of objects in turn,
\* on the positions as moved so far; gives the positions and overlaps_found.
RECURSIVE OverlapRound(_, _, _, _, _, _)
OverlapRound(positions, all_objects, padding, i, j, overlaps_found) ==
    IF i > Len(positions) THEN <<positions, overlaps_found>>
    ELSE IF j > Len(positions) THEN OverlapRound(positions, all_objects, padding, i + 1, 1, overlaps_found)
    ELSE IF i # j /\ BoxesOverlap(positions[i], positions[j], all_objects[i], all_objects[j], padding)
         THEN OverlapRound(PushApart(positions, i, j, all_objects, padding), all_objects, padding, i, j + 1, TRUE)
         ELSE OverlapRound(positions, all_objects, padding, i, j + 1, overlaps_found)

OverlapRounds == 5

\* The for loop of _resolve_overlaps goes on: ended by its range, or by the
\* break after a round without overlaps.
ResolveContinues_UntilClear(round, overlaps_found) == round = 0 \/ overlaps_found

ResolveContinues(round, overlaps_found) == round < OverlapRounds /\ (round = 0 \/ overlaps_found)

k_repulsion_device_device == 25

k_repulsion_network_network == 20

k_repulsion_device_network == 40

iterations == 40

initial_temperature == 60

max_attraction == 35

ForceDirectedPadding == 5

\* The largest force kept, in tenths; every move is clamped to the
\* temperature afterwards.
ForceCap == 100000

\* k_repulsion of a pair, by the kinds of its objects.
KRepulsion(objects, v, u) ==
    IF IsDevice(objects, v.id) /\ IsDevice(objects, u.id) THEN k_repulsion_device_device
    ELSE IF ~IsDevice(objects, v.id) /\ ~IsDevice(objects, u.id) THEN k_repulsion_network_network
    ELSE k_repulsion_device_network

\* repulsion_force: k * k / distance, times (min_distance / distance)**2
\* when the objects are closer than min_distance.
RepulsionForce(k, distance, min_distance) ==
    LET base == Quot(100 * k * k, distance)
    IN IF distance < min_distance
       THEN Min(ForceCap, Quot(Min(ForceCap, Quot(base * min_distance, distance)) * min_distance, distance))
       ELSE base

\* The push of u on v.
Repulsion(objects, positions, v, u) ==
    LET all_objects == AllObjects(objects)
        dx == positions[v][1] - positions[u][1]
        dy == positions[v][2] - positions[u][2]
        distance == Distance(dx, dy)
        force == RepulsionForce(KRepulsion(objects, all_objects[v], all_objects[u]), distance, MinDistance(all_objects[v], all_objects[u], ForceDirectedPadding))
    IN <<Quot(dx * force, distance), Quot(dy * force, distance)>>

\* attraction_force: distance**2 * 0.4 / 40 * 1.5 between a device and a
\* network, distance**2 * 0.4 / 25 between two of a kind, at most
\* max_attraction (reached below 100 units).
AttractionForce(distance, mixed) ==
    IF distance >= Deci(100) THEN Deci(max_attraction)
    ELSE Min(Deci(max_attraction), IF mixed THEN Quot(distance * distance * 15, 10000) ELSE Quot(distance * distance * 16, 10000))

\* The pull of neighbor on node.
Attraction(objects, positions, node, neighbor) ==
    LET all_objects == AllObjects(objects)
        dx == positions[neighbor][1] - positions[node][1]
        dy == positions[neighbor][2] - positions[node][2]
        distance == Distance(dx, dy)
        force == AttractionForce(distance, IsDevice(objects, all_objects[node].id) # IsDevice(objects, all_objects[neighbor].id))
    IN <<Quot(dx * force, distance), Quot(dy * force, distance)>>

RECURSIVE SumVectors(_, _, _)
SumVectors(vs, i, acc) == IF i > Len(vs) THEN acc ELSE SumVectors(vs, i + 1, <<acc[1] + vs[i][1], acc[2] + vs[i][2]>>)

\* The positions in all_objects of the neighbours of an object in graph.
NeighbourIndexes(objects, node) ==
    LET all_objects == AllObjects(objects)
        ns == Neighbours(objects.links, all_objects[node].id, 1, <<>>)
    IN {u \in DOMAIN all_objects : \E k \in DOMAIN ns : ns[k] = all_objects[u].id}

\* displacement[v] after the repulsion and attraction loops.
Displacement(objects, positions, v) ==
    SumVectors([u \in DOMAIN positions |->
        LET rep == IF u # v THEN Repulsion(objects, positions, v, u) ELSE <<0, 0>>
            att == IF u \in NeighbourIndexes(objects, v) THEN Attraction(objects, positions, v, u) ELSE <<0, 0>>
        IN <<rep[1] + att[1], rep[2] + att[2]>>], 1, <<0, 0>>)

\* initial_temperature * (1 - iteration / iterations)
Temperature(iteration) == Quot(Deci(initial_temperature) * (iterations - iteration), iterations)

\* A position update that adds the whole displacement.
Clamp_Unbounded(d, t) == d

\* max(min(displacement, temperature), -temperature)
Clamp(d, t) == Max(Min(d, t), -t)

\* One iteration of the simulation loop.
SimulationStep(objects, positions, iteration) == [v \in DOMAIN positions |->
    LET d == Displacement(objects, positions, v)
        t == Temperature(iteration)
    IN <<positions[v][1] + Clamp(d[1], t), positions[v][2] + Clamp(d[2], t)>>]

\* The start positions, on a circle of radius max(50, n * 15).
InitialPositions(objects) ==
    LET n == Len(AllObjects(objects))
    IN [i \in 1..n |-> CirclePoint(n, i - 1, Deci(Max(50, n * 15)))]

\* The positions moved to non-negative coordinates and turned into corners.
Normalized(objects, positions) ==
    LET all_objects == AllObjects(objects)
        min_x == -SeqMax([i \in DOMAIN positions |-> -positions[i][1]], 2, -positions[1][1])
        min_y == -SeqMax([i \in DOMAIN positions |-> -positions[i][2]], 2, -positions[1][2])
    IN [i \in DOMAIN positions |-> Placed(all_objects[i], positions[i][1] - min_x - Deci(Width(all_objects[i])) \div 2, positions[i][2] - min_y - Deci(Height(all_objects[i])) \div 2)]

----------------------------------------------------------------------------
(* A layout strategy on one objects dictionary, and _resolve_overlaps on   *)
(* three objects in a row                                                  *)

\* The width and height keys of the objects drawn: none and two boxes with
\* whole diagonals.
BoxSizes == {<<30, 40>>, <<90, 120>>}

Box(obj_id, s) == [id |-> obj_id, width |-> s[1], height |-> s[2]]

LayoutDevices == {<<>>, <<[id |-> "d1"]>>} \cup {<<Box("d1", s)>> : s \in BoxSizes}

LayoutNetworks == {<<>>, <<[id |-> "n1"]>>, <<[id |-> "n1", pattern |-> 1]>>} \cup {<<Box("n1", s)>> : s \in BoxSizes}

LayoutLinks == {<<>>, <<[source |-> "d1", target |-> "n1"]>>, <<[source |-> "n1", target |-> "d1"], [source |-> "d1", target |-> "n1"]>>}

LayoutInputs == [devices : LayoutDevices, networks : LayoutNetworks, links : LayoutLinks]

Algorithms == {"circular", "grid", "force_directed", "clustered"}

\* The locals of a call: the caller's positions, the dict new_positions
\* that _resolve_overlaps makes of it with positions.copy(), whose values
\* are the caller's own [x, y] lists, the loop counters and overlaps_found;
\* passed records the coordinates positions held when _resolve_overlaps was
\* entered.
Frame(algorithm, positions, padding) == [algorithm |-> algorithm, positions |-> positions, new_positions |-> positions, passed |-> positions, padding |-> padding, iteration |-> 0, round |-> 0, overlaps_found |-> FALSE]

\* The centres of the overlap runs lie MaxOffset steps of 10 units apart at
\* most.
MaxOffset == 4

OverlapPaddings == {10, 50}

OverlapIds == <<"A", "B", "C">>

OverlapInputs == {[devices |-> [i \in DOMAIN OverlapIds |-> Box(OverlapIds[i], s[i])], networks |-> <<>>, links |-> <<>>] : s \in [DOMAIN OverlapIds -> BoxSizes]}

OverlapPositions == [DOMAIN OverlapIds -> {<<Deci(10 * k), 0>> : k \in 0..MaxOffset}]

InitStrategy == /\ pc = "layout"
  /\ devices_data \in LayoutInputs
  /\ \E algorithm \in Algorithms : call = Frame(algorithm, <<>>, 0)

InitOverlap == /\ pc = "resolve"
  /\ devices_data \in OverlapInputs
  /\ \E positions \in OverlapPositions, padding \in OverlapPaddings : call = Frame("_resolve_overlaps", positions, padding)

InitLayout == /\ (InitStrategy \/ InitOverlap)
  /\ ret = <<>>
  /\ physical_links = <<>>
  /\ mgmt_networks = <<>>
  /\ logical_links = <<>>

CallLayoutCircular == /\ pc = "layout"
  /\ call.algorithm = "circular"
  /\ ret' = LayoutCircular(devices_data)
  /\ pc' = "placed"
  /\ UNCHANGED <<devices_data, physical_links, mgmt_networks, logical_links, call>>

CallLayoutGrid == /\ pc = "layout"
  /\ call.algorithm = "grid"
  /\ ret' = LayoutGrid(devices_data)
  /\ pc' = "placed"
  /\ UNCHANGED <<devices_data, physical_links, mgmt_networks, logical_links, call>>

CallLayoutClustered == /\ pc = "layout"
  /\ call.algorithm = "clustered"
  /\ ret' = LayoutClustered(devices_data)
  /\ pc' = "placed"
  /\ UNCHANGED <<devices_data, physical_links, mgmt_networks, logical_links, call>>

\* layout_algorithm_force_directed up to its simulation loop: zero or one
\* object is placed at once, more objects start on the circle.
CallLayoutForceDirected == /\ pc = "layout"
  /\ call.algorithm = "force_directed"
  /\ (IF Len(AllObjects(devices_data)) <= 1
      THEN /\ ret' = [i \in DOMAIN AllObjects(devices_data) |-> Placed(AllObjects(devices_data)[i], 0, 0)]
           /\ pc' = "placed"
           /\ call' = call
      ELSE /\ call' = Frame("force_directed", InitialPositions(devices_data), ForceDirectedPadding)
           /\ pc' = "simulate"
           /\ ret' = ret)
  /\ UNCHANGED <<devices_data, physical_links, mgmt_networks, logical_links>>

\* One pass of for iteration in range(iterations); after the last one the
\* layout calls _resolve_overlaps.
SimulationIteration == /\ pc = "simulate"
  /\ call.iteration < iterations
  /\ (LET positions == SimulationStep(devices_data, call.positions, call.iteration)
      IN call' = [call EXCEPT !.positions = positions, !.new_positions = positions, !.passed = positions, !.iteration = call.iteration + 1])
  /\ pc' = (IF call.iteration + 1 < iterations THEN "simulate" ELSE "resolve")
  /\ UNCHANGED <<devices_data, physical_links, mgmt_networks, logical_links, ret>>

\* One pass of for _ in range(5).
ResolveRound == /\ pc = "resolve"
  /\ ResolveContinues(call.round, call.overlaps_found)
  /\ (LET r == OverlapRound(call.new_positions, AllObjects(devices_data), call.padding, 1, 1, FALSE)
      IN call' = [call EXCEPT !.new_positions = r[1], !.positions = r[1], !.overlaps_found = r[2], !.round = call.round + 1])
  /\ UNCHANGED <<pc, devices_data, physical_links, mgmt_networks, logical_links, ret>>

\* _resolve_overlaps returns to a direct caller.
ReturnResolveOverlaps == /\ pc = "resolve"
  /\ call.algorithm = "_resolve_overlaps"
  /\ ~ResolveContinues(call.round, call.overlaps_found)
  /\ ret' = call.new_positions
  /\ pc' = "resolved"
  /\ UNCHANGED <<devices_data, physical_links, mgmt_networks, logical_links, call>>

\* _resolve_overlaps returns to layout_algorithm_force_directed, which
\* normalizes the positions and returns.
FinishForceDirected == /\ pc = "resolve"
  /\ call.algorithm = "force_directed"
  /\ ~ResolveContinues(call.round, call.overlaps_found)
  /\ ret' = Normalized(devices_data, call.new_positions)
  /\ pc' = "placed"
  /\ UNCHANGED <<devices_data, physical_links, mgmt_networks, logical_links, call>>

NextLayout == \/ CallLayoutCircular
  \/ CallLayoutGrid
  \/ CallLayoutClustered
  \/ CallLayoutForceDirected
  \/ SimulationIteration
  \/ ResolveRound
  \/ ReturnResolveOverlaps
  \/ FinishForceDirected

SpecLayout == InitLayout /\ [][NextLayout]_vars

----------------------------------------------------------------------------
(* The grid and the clustered layout on up to five objects of mixed sizes  *)

\* Widths and heights of the objects packed.
PackSizes == {<<30, 40>>, <<90, 120>>, <<30, 200>>}

PackDeviceIds == <<"d1", "d2", "d3">>

PackDevices == UNION {{[i \in 1..n |-> Box(PackDeviceIds[i], s[i])] : s \in [1..n -> PackSizes]} : n \in 0..Len(PackDeviceIds)}

Net(obj_id, s, pattern) == [id |-> obj_id, width |-> s[1], height |-> s[2], pattern |-> pattern]

PackNetworks == {<<>>} \cup {<<Net("n1", s, 1)>> : s \in PackSizes} \cup {<<Net("n1", s[1], 1), Net("n2", s[2], pattern)>> : s \in PackSizes \X PackSizes, pattern \in {1, 2}}

Link(source, target) == [source |-> source, target |-> target]

\* d1 - n1 - d2 - n2 - d3
PackChain == <<Link("d1", "n1"), Link("n1", "d2"), Link("d2", "n2"), Link("n2", "d3")>>

RECURSIVE Picked(_, _, _)
Picked(s, keep, i) == IF i > Len(s) THEN <<>> ELSE (IF keep[i] THEN <<s[i]>> ELSE <<>>) \o Picked(s, keep, i + 1)

\* Every selection of links of the chain, and lists with a repeated, a
\* reversed and a self link.
PackLinks == {Picked(PackChain, keep, 1) : keep \in [DOMAIN PackChain -> BOOLEAN]} \cup {<<Link("d1", "n1"), Link("n1", "d1"), Link("d1", "n1")>>, <<Link("d3", "d3"), Link("d3", "d1")>>}

PackInputs == [devices : PackDevices, networks : PackNetworks, links : PackLinks]

InitPacking == /\ pc = "layout"
  /\ devices_data \in PackInputs
  /\ (\E algorithm \in {"grid", "clustered"} : call = Frame(algorithm, <<>>, 0))
  /\ ret = <<>>
  /\ physical_links = <<>>
  /\ mgmt_networks = <<>>
  /\ logical_links = <<>>

NextPacking == CallLayoutGrid \/ CallLayoutClustered

SpecPacking == InitPacking /\ [][NextPacking]_vars

----------------------------------------------------------------------------
(* generate_network_list: the pattern tag of each network of a result      *)

\* network_sources[network], 0 where the network is no key yet.
SourceOf(network_sources, network) == IF \E k \in DOMAIN network_sources : network_sources[k].label = network THEN network_sources[CHOOSE k \in DOMAIN network_sources : network_sources[k].label = network].pattern ELSE 0

\* network_sources[network] = source_type, a new key going last.
SetSource(network_sources, network, source_type) == IF SourceOf(network_sources, network) = 0 THEN Append(network_sources, [label |-> network, pattern |-> source_type]) ELSE [k \in DOMAIN network_sources |-> IF network_sources[k].label = network THEN [label |-> network, pattern |-> source_type] ELSE network_sources[k]]

\* The loop over data['physical_links'].
RECURSIVE PhysicalSources(_, _, _)
PhysicalSources(links, i, network_sources) == IF i > Len(links) THEN network_sources
  ELSE IF Len(links[i]) < 11 THEN PhysicalSources(links, i + 1, network_sources)
  ELSE LET network == links[i][11]
       IN PhysicalSources(links, i + 1, IF SourceOf(network_sources, network) = 0 THEN SetSource(network_sources, network, 1) ELSE IF SourceOf(network_sources, network) # 1 THEN SetSource(network_sources, network, 2) ELSE network_sources)

\* The loop over data['mgmt_networks'].
RECURSIVE MgmtSources(_, _, _)
MgmtSources(entries, i, network_sources) == IF i > Len(entries) THEN network_sources
  ELSE IF Len(entries[i]) < 6 THEN MgmtSources(entries, i + 1, network_sources)
  ELSE LET network == entries[i][6]
       IN MgmtSources(entries, i + 1, IF SourceOf(network_sources, network) = 0 THEN SetSource(network_sources, network, 2) ELSE network_sources)

\* 'Network:' in link_type: of the descriptions find_logical_links writes,
\* "Service Network: <cidr>" alone.
HasNetwork(link_type) == link_type[1] = "Service Network"

\* The loop over data['logical_links']; link_type.split(':')[1].strip() is
\* the CIDR of the description.
RECURSIVE LogicalSources(_, _, _)
LogicalSources(links, i, network_sources) == IF i > Len(links) THEN network_sources
  ELSE IF Len(links[i]) < 9 \/ ~HasNetwork(links[i][9]) THEN LogicalSources(links, i + 1, network_sources)
  ELSE LET network == links[i][9][2]
       IN LogicalSources(links, i + 1, IF SourceOf(network_sources, network) = 0 THEN SetSource(network_sources, network, 3) ELSE IF SourceOf(network_sources, network) = 3 THEN SetSource(network_sources, network, 2) ELSE network_sources)

\* generate_network_list: label and pattern of each network, in the order of
\* network_sources.
GenerateNetworkList(data) == LogicalSources(data.logical_links, 1, MgmtSources(data.mgmt_networks, 1, PhysicalSources(data.physical_links, 1, <<>>)))

\* The networks of the rows.
ListNetworks == {<<(<<10, 0, 0, 0>>), 24>>, <<(<<172, 16, 5, 0>>), 24>>}

PhysicalRowOn(network) == <<D_R1, Vendors[1], DeviceTypes[1], N_GE1, <<10, 0, 0, 1>>, D_R2, Vendors[1], DeviceTypes[1], N_GE1, <<10, 0, 0, 2>>, network>>

MgmtRowOn(network) == <<D_R1, Vendors[1], DeviceTypes[1], N_MEth0, <<10, 0, 0, 1>>, network>>

LogicalRowOn(description) == <<D_R1, Vendors[1], DeviceTypes[1], <<N_Vlanif10, <<10, 0, 0, 1>>>>, D_R2, Vendors[1], DeviceTypes[1], <<N_Vlanif10, <<10, 0, 0, 2>>>>, description>>

Descriptions == {<<"Service Network", network>> : network \in ListNetworks} \cup {<<"Logical P2P", <<(<<10, 0, 0, 0>>), 31>>>>}

\* The longest list of physical and of management rows, and of logical rows.
MaxRows == 2

MaxLogicalRows == 3

SeqsUpTo(S, n) == UNION {[1..k -> S] : k \in 0..n}

InitNetworkList == /\ pc = "generate"
  /\ physical_links \in SeqsUpTo({PhysicalRowOn(network) : network \in ListNetworks}, MaxRows)
  /\ mgmt_networks \in SeqsUpTo({MgmtRowOn(network) : network \in ListNetworks}, MaxRows)
  /\ logical_links \in SeqsUpTo({LogicalRowOn(description) : description \in Descriptions}, MaxLogicalRows)
  /\ devices_data = <<>>
  /\ call = <<>>
  /\ ret = <<>>

CallGenerateNetworkList == /\ pc = "generate"
  /\ ret' = GenerateNetworkList([physical_links |-> physical_links, mgmt_networks |-> mgmt_networks, logical_links |-> logical_links])
  /\ pc' = "network_list"
  /\ UNCHANGED <<devices_data, physical_links, mgmt_networks, logical_links, call>>

NextNetworkList == CallGenerateNetworkList

SpecNetworkList == InitNetworkList /\ [][NextNetworkList]_vars

----------------------------------------------------------------------------
(* vizualizer.find_connections on the records of two or three devices      *)

\* extract_networks_from_device: each routing network with an interface and
\* a network of two '/'-separated parts, the second of which int() reads;
\* full_network is the string as it was given.
RECURSIVE ExtractNetworks(_, _)
ExtractNetworks(routing_networks, i) == IF i > Len(routing_networks) THEN <<>>
  ELSE LET net == routing_networks[i]
       IN (IF "interface" \in DOMAIN net /\ "network" \in DOMAIN net /\ Len(net.network) = 2 /\ IsDigit(net.network[2])
           THEN <<[interface |-> net.interface, ip |-> net.network[1], prefix |-> net.network[2][1], full_network |-> net.network]>>
           ELSE <<>>) \o ExtractNetworks(routing_networks, i + 1)

ExtractNetworksFromDevice(device_info) == ExtractNetworks(Get(device_info, "routing_networks", <<>>), 1)

\* device_networks: one entry per filename that has networks, in the order
\* of first occurrence, holding the last record of that filename.
RECURSIVE DeviceNetworks(_, _, _)
DeviceNetworks(devices, i, acc) == IF i > Len(devices) THEN acc
  ELSE LET networks == ExtractNetworksFromDevice(devices[i])
           entry == [filename |-> devices[i].filename, networks |-> networks]
       IN DeviceNetworks(devices, i + 1,
            IF networks = <<>> THEN acc
            ELSE IF \E k \in DOMAIN acc : acc[k].filename = entry.filename THEN [k \in DOMAIN acc |-> IF acc[k].filename = entry.filename THEN entry ELSE acc[k]]
            ELSE Append(acc, entry))

\* The connections of one pair of devices: a connection for every net1 and
\* net2 whose full_network strings are equal.
RECURSIVE PairConnections(_, _, _, _)
PairConnections(dev1, dev2, a, b) == IF a > Len(dev1.networks) THEN <<>>
  ELSE IF b > Len(dev2.networks) THEN PairConnections(dev1, dev2, a + 1, 1)
  ELSE (IF dev1.networks[a].full_network = dev2.networks[b].full_network
        THEN <<[source |-> dev1.filename, target |-> dev2.filename, source_interface |-> dev1.networks[a].interface, target_interface |-> dev2.networks[b].interface, network |-> dev1.networks[a].full_network]>>
        ELSE <<>>) \o PairConnections(dev1, dev2, a, b + 1)

\* find_connections: the pairs i < j of device_networks in turn.
RECURSIVE Connections(_, _, _)
Connections(device_networks, i, j) == IF i > Len(device_networks) THEN <<>>
  ELSE IF j > Len(device_networks) THEN Connections(device_networks, i + 1, i + 2)
  ELSE PairConnections(device_networks[i], device_networks[j], 1, 1) \o Connections(device_networks, i, j + 1)

FindConnections(devices) == Connections(DeviceNetworks(devices, 1, <<>>), 1, 2)

RoutingNetwork(interface, ip, mask) == [interface |-> interface, network |-> <<ip, mask>>]

\* "10.0.0.1/24", "10.0.0.2/24", "10.0.0.0/24", "172.16.5.1/24",
\* "10.0.0.3/255.255.255.0", and an entry without a mask.
RoutingEntries == {RoutingNetwork(N_GE1, <<10, 0, 0, 1>>, <<24>>), RoutingNetwork(N_GE1, <<10, 0, 0, 2>>, <<24>>), RoutingNetwork(N_Vlanif10, <<10, 0, 0, 0>>, <<24>>), RoutingNetwork(N_GE1, <<172, 16, 5, 1>>, <<24>>), RoutingNetwork(N_GE1, <<10, 0, 0, 3>>, <<255, 255, 255, 0>>), [interface |-> N_GE1, network |-> <<(<<10, 0, 0, 4>>)>>]}

RoutingLists == {<<>>} \cup {<<e>> : e \in RoutingEntries} \cup {<<RoutingNetwork(N_GE1, <<10, 0, 0, 1>>, <<24>>), RoutingNetwork(N_100GE1, <<172, 16, 5, 1>>, <<24>>)>>, <<RoutingNetwork(N_GE1, <<10, 0, 0, 0>>, <<24>>), RoutingNetwork(N_100GE1, <<10, 0, 0, 0>>, <<24>>)>>}

FilenameVectors == {<<D_R1, D_R2>>, <<D_R1, D_R2, D_R3>>, <<D_R1, D_R2, D_R1>>}

InitConnections == /\ pc = "connect"
  /\ (\E names \in FilenameVectors : \E lists \in [DOMAIN names -> RoutingLists] :
       devices_data = [i \in DOMAIN names |-> [filename |-> names[i], routing_networks |-> lists[i]]])
  /\ physical_links = <<>>
  /\ mgmt_networks = <<>>
  /\ logical_links = <<>>
  /\ call = <<>>
  /\ ret = <<>>

CallFindConnections == /\ pc = "connect"
  /\ ret' = FindConnections(devices_data)
  /\ pc' = "connections"
  /\ UNCHANGED <<devices_data, physical_links, mgmt_networks, logical_links, call>>

NextConnections == CallFindConnections

SpecConnections == InitConnections /\ [][NextConnections]_vars

----------------------------------------------------------------------------
(* Properties of analyze_topology (specification Spec) *)

\* The positions of the devices whose name is resolved.
NamedDevices == {i \in DOMAIN devices_data : devices_data[i].device_name # S_unknown}

\* The records the finders collect interfaces from: the last record of each
\* resolved name (device_interfaces and all_interfaces are keyed by name).
CollectedDevices == {i \in NamedDevices : \A j \in NamedDevices : devices_data[j].device_name = devices_data[i].device_name => j <= i}

\* The descriptor lists of the collected devices under a filter.
DescriptorLists(filter_type) == [i \in CollectedDevices |-> ExtractDeviceInterfaces(devices_data[i], filter_type)]

\* The positions <<i, j>> of the descriptors of D.
Positions(D) == UNION {{<<i, j>> : j \in DOMAIN D[i]} : i \in DOMAIN D}

\* The endpoints of D that lie in network c.
EndpointsIn(D, c) == {e \in Positions(D) : D[e[1]][e[2]].network_cidr = c}

\* The Physical links that carry network c.
PhysicalLinksOf(c) == {k \in DOMAIN physical_links : physical_links[k][11] = c}

\* The (device, interface, ip) triples a Physical link joins.
LinkEnds(l) == {<<l[1], l[4], l[5]>>, <<l[6], l[9], l[10]>>}

EndpointTriple(D, e) == <<devices_data[e[1]].device_name, D[e[1]][e[2]].interface, D[e[1]][e[2]].ip>>

\* C1: once find_physical_links has run, a network with exactly two
\* physical-filtered endpoints has exactly one Physical link, which joins
\* these two endpoints, and a network with 0, 1, 3 or more has none.
C1_ExactlyTwoEndpoints == pc \in {"physical", "mgmt", "done"} => LET D == DescriptorLists("physical") IN
  \A c \in {D[e[1]][e[2]].network_cidr : e \in Positions(D)} \cup {physical_links[k][11] : k \in DOMAIN physical_links} :
    IF Cardinality(EndpointsIn(D, c)) = 2
    THEN /\ Cardinality(PhysicalLinksOf(c)) = 1
         /\ \A k \in PhysicalLinksOf(c) : LinkEnds(physical_links[k]) = {EndpointTriple(D, e) : e \in EndpointsIn(D, c)}
    ELSE PhysicalLinksOf(c) = {}

\* C1 witness: R1 10.0.0.0/31 and R2 10.0.0.1/31 give the one link of
\* 10.0.0.0/31.
C1_Witness == /\ pc = "done"
  /\ physical_links = <<(<<D_R1, "huawei", "switch", N_100GE1, <<10, 0, 0, 0>>, D_R2, "b4com", "router", N_100GE1, <<10, 0, 0, 1>>, <<(<<10, 0, 0, 0>>), 31>>>>)>>

\* C1, second case reached: three endpoints in 10.0.0.0/31 and no link.
C1_ThreeEndpointsReached == /\ pc = "done"
  /\ Cardinality(EndpointsIn(DescriptorLists("physical"), <<(<<10, 0, 0, 0>>), 31>>)) = 3
  /\ physical_links = <<>>

IsBridgeName(name) == StartsWithAny(name, {S_Vbdif, S_Vlanif})

\* The named devices with a bridge-type descriptor of D, prefix 24..28, in c.
ServiceDevices(D, c) == {devices_data[e[1]].device_name : e \in {e \in EndpointsIn(D, c) : IsBridgeName(D[e[1]][e[2]].interface) /\ D[e[1]][e[2]].prefix \in 24..28}}

ServiceLinksOf(c) == {k \in DOMAIN logical_links : logical_links[k][9] = <<"Service Network", c>>}

\* The unordered pairs of a set.
PairsOf(S) == {{a, b} : a \in S, b \in S} \ {{a} : a \in S}

\* C9 (as claimed): once find_logical_links has run, a network shared by the
\* bridge-type /24../28 interfaces of n >= 2 named devices has n(n-1)/2
\* 'Service Network' links, one for each unordered pair of these devices, and
\* a network with fewer than two such devices has none.
C9_ServicePairs == pc = "done" => LET D == DescriptorLists("all") IN
  \A c \in {D[e[1]][e[2]].network_cidr : e \in Positions(D)} \cup {logical_links[k][9][2] : k \in {k \in DOMAIN logical_links : logical_links[k][9][1] = "Service Network"}} :
    LET devs == ServiceDevices(D, c) IN
    IF Cardinality(devs) >= 2
    THEN /\ 2 * Cardinality(ServiceLinksOf(c)) = Cardinality(devs) * (Cardinality(devs) - 1)
         /\ {{logical_links[k][1], logical_links[k][5]} : k \in ServiceLinksOf(c)} = PairsOf(devs)
    ELSE ServiceLinksOf(c) = {}

\* C9, the scenario of the claim reached: three devices with one bridge
\* interface each in 172.16.5.0/24 and the three links R1-R2, R1-R3, R2-R3.
C9_ThreeDevicesReached == /\ pc = "done"
  /\ Cardinality(ServiceDevices(DescriptorLists("all"), <<(<<172, 16, 5, 0>>), 24>>)) = 3
  /\ Len(logical_links) = 3
  /\ {{logical_links[k][1], logical_links[k][5]} : k \in ServiceLinksOf(<<(<<172, 16, 5, 0>>), 24>>)} = {{D_R1, D_R2}, {D_R1, D_R3}, {D_R2, D_R3}}

\* The rows of find_mgmt_interfaces for device `name` and interface `intf`.
MgmtRowsOf(name, intf) == {k \in DOMAIN mgmt_networks : mgmt_networks[k][1] = name /\ mgmt_networks[k][4] = intf}

\* Device i lists interface `intf` with address `ip` and mask string `mask`
\* in all_ip_interfaces or in management_info.
HasRawInterface(i, intf, ip, mask) == \/ \E j \in DOMAIN devices_data[i].all_ip_interfaces : devices_data[i].all_ip_interfaces[j] = Raw(intf, ip, mask)
  \/ devices_data[i].management_info = Mgmt(intf, ip, mask)

\* C2 (as claimed): a named device whose management interface Mgmt0 has
\* 10.7.8.5/24 gets exactly one Management link for it, and that link is
\* (device, vendor, type, Mgmt0, 10.7.8.5, "10.7.8.0/24").
C2_MgmtLinkNetwork == pc \in {"mgmt", "done"} => \A i \in NamedDevices : HasRawInterface(i, N_Mgmt0, <<10, 7, 8, 5>>, <<24>>) =>
    /\ Cardinality(MgmtRowsOf(devices_data[i].device_name, N_Mgmt0)) = 1
    /\ \A k \in MgmtRowsOf(devices_data[i].device_name, N_Mgmt0) : mgmt_networks[k] = <<devices_data[i].device_name, devices_data[i].vendor, devices_data[i].device_type, N_Mgmt0, <<10, 7, 8, 5>>, <<(<<10, 7, 8, 0>>), 24>>>>

\* The position of the last "." of a name, 0 if it has none.
LastDot(name) == IF \E i \in DOMAIN name : name[i] = "." THEN CHOOSE i \in DOMAIN name : name[i] = "." /\ \A j \in (i + 1)..Len(name) : name[j] # "." ELSE 0

\* A name "<base>.<integer>".
HasNumericSuffix(name) == LastDot(name) > 1 /\ AllDigits(SubSeq(name, LastDot(name) + 1, Len(name)))

BaseOf(name) == SubSeq(name, 1, LastDot(name) - 1)

SuffixOf(name) == ParseInt(SubSeq(name, LastDot(name) + 1, Len(name)))

\* A sub-interface of a 100GE, 40GE or 10GE port whose number is a VNI.
IsOverlaySubInterface(name) == HasNumericSuffix(name) /\ StartsWithAny(BaseOf(name), {S_100GE, S_40GE, S_10GE}) /\ SuffixOf(name) >= VniMin /\ SuffixOf(name) <= VniMax

OverlayLinksOf(a, b, n) == {k \in DOMAIN logical_links : logical_links[k][9] = <<"VXLAN VNI", n>> /\ {logical_links[k][1], logical_links[k][5]} = {a, b}}

\* C3 (as claimed): two distinct named devices that both have the
\* sub-interface <base>.<n> of a 100GE/40GE/10GE port, 1000 <= n <= 16777215,
\* are joined by exactly one 'VXLAN VNI n (Overlay)' link.
C3_OverlayLink == pc = "done" => LET D == DescriptorLists("all") IN
  \A e1 \in Positions(D), e2 \in Positions(D) :
    (e1[1] < e2[1] /\ D[e1[1]][e1[2]].interface = D[e2[1]][e2[2]].interface /\ IsOverlaySubInterface(D[e1[1]][e1[2]].interface))
      => Cardinality(OverlayLinksOf(devices_data[e1[1]].device_name, devices_data[e2[1]].device_name, SuffixOf(D[e1[1]][e1[2]].interface))) = 1

\* C4 (as claimed): no network is reported both by a Physical link and by a
\* 'Logical P2P' link.
C4_NoDoubleReport == pc = "done" => \A k \in DOMAIN physical_links : \A n \in DOMAIN logical_links : logical_links[n][9] # <<"Logical P2P", physical_links[k][11]>>

\* The input without the all_ip_interfaces entries and management_info
\* records whose address is not an IPv4 address.
WellFormed(device) == [device EXCEPT !.all_ip_interfaces = SelectSeq(device.all_ip_interfaces, LAMBDA e : ValidIPv4(e.ip)), !.management_info = IF ValidIPv4(device.management_info.mgmt_ip) THEN device.management_info ELSE NoMgmt]

WellFormedInput == [i \in DOMAIN devices_data |-> WellFormed(devices_data[i])]

\* C5 (as claimed): an interface whose address is malformed is an endpoint
\* of no link, and the links are those of the input without it.
C5_MalformedExcluded == pc = "done" =>
    /\ \A k \in DOMAIN physical_links : ValidIPv4(physical_links[k][5]) /\ ValidIPv4(physical_links[k][10])
    /\ \A k \in DOMAIN mgmt_networks : ValidIPv4(mgmt_networks[k][5])
    /\ \A k \in DOMAIN logical_links : ValidIPv4(logical_links[k][4][2]) /\ ValidIPv4(logical_links[k][8][2])
    /\ physical_links = FindPhysicalLinks(WellFormedInput)
    /\ mgmt_networks = FindMgmtInterfaces(WellFormedInput)
    /\ logical_links = FindLogicalLinks(WellFormedInput)

\* C10 (as claimed): the (device, interface, ip) of a Management link is
\* never an endpoint of a 'Service Network' link of the same result.
C10_MgmtNotService == pc = "done" => \A m \in DOMAIN mgmt_networks : \A n \in DOMAIN logical_links :
    logical_links[n][9][1] = "Service Network" =>
      /\ <<logical_links[n][1], logical_links[n][4]>> # <<mgmt_networks[m][1], <<mgmt_networks[m][4], mgmt_networks[m][5]>>>>
      /\ <<logical_links[n][5], logical_links[n][8]>> # <<mgmt_networks[m][1], <<mgmt_networks[m][4], mgmt_networks[m][5]>>>>

----------------------------------------------------------------------------
(* Properties of extract_device_interfaces (specification SpecExtract) *)

\* c is the network of ip/p: the prefix is p, the host bits of the address
\* are zero and its network bits are those of ip.
IsNetworkOf(c, ip, p) == /\ c[2] = p
  /\ ValidIPv4(c[1])
  /\ \A k \in 1..4 : /\ c[1][k] % Pow2(8 - OctetBits(p, k)) = 0
                     /\ c[1][k] \div Pow2(8 - OctetBits(p, k)) = ip[k] \div Pow2(8 - OctetBits(p, k))

\* C6 (as claimed): every descriptor with a valid IPv4 address and a prefix
\* 0..32 has the canonical network address of ip/prefix as its network_cidr.
C6_CanonicalNetworkCidr == pc = "extracted" => \A k \in DOMAIN ret : (ValidIPv4(ret[k].ip) /\ ret[k].prefix \in 0..32) => IsNetworkOf(ret[k].network_cidr, ret[k].ip, ret[k].prefix)

\* C7 (as claimed): every descriptor has a prefix in 0..32.
C7_PrefixInRange == pc = "extracted" => \A k \in DOMAIN ret : ret[k].prefix \in 0..32

\* C27 (as claimed): no physical and no logical link of analyze_topology
\* joins a device to itself.
C27_NoSelfLink == pc = "done" =>
  /\ \A k \in DOMAIN physical_links : physical_links[k][1] # physical_links[k][6]
  /\ \A k \in DOMAIN logical_links : logical_links[k][1] # logical_links[k][5]

\* The failing run of C27: a device lists Vlanif10 with 172.16.5.1/24 and its
\* management_info names Vbdif100 with 172.16.5.0/24; the two descriptors
\* of the one device share the network and are joined by a 'Service
\* Network' link.
C27_SelfServiceLink == /\ pc = "done"
  /\ \E k \in DOMAIN logical_links :
       /\ logical_links[k][1] = logical_links[k][5]
       /\ logical_links[k][4] = <<N_Vlanif10, <<172, 16, 5, 1>>>>
       /\ logical_links[k][8] = <<N_Vbdif100, <<172, 16, 5, 0>>>>
       /\ logical_links[k][9] = <<"Service Network", <<(<<172, 16, 5, 0>>), 24>>>>

\* C27, the physical links alone.
C27_NoPhysicalSelfLink == pc = "done" => \A k \in DOMAIN physical_links : physical_links[k][1] # physical_links[k][6]

\* C27, the logical links alone.
C27_NoLogicalSelfLink == pc = "done" => \A k \in DOMAIN logical_links : logical_links[k][1] # logical_links[k][5]

----------------------------------------------------------------------------
(* Properties of the AddressResolver (specification SpecResolver) *)

\* A prefix-length string "0".."32", or a dotted mask ipaddress accepts.
IsMaskString(m) == (IsDigit(m) /\ m[1] <= 32) \/ (ValidIPv4(m) /\ PrefixFromDotted(m) >= 0)

\* C8 (as claimed): netmask_to_prefix returns only values 0..32 and raises
\* the invalid-mask error for every string that is no mask.
C8_InvalidMaskRejected == pc = "netmask_to_prefix" => (ret.err \/ ret.val \in 0..32) /\ (IsMaskString(call[2]) \/ ret.err)

\* Bit i (1 = most significant, 32 = least) of a dotted quad.
AddressBit(ip, i) == (ip[((i - 1) \div 8) + 1] \div Pow2(7 - ((i - 1) % 8))) % 2

\* Two addresses agree on their first p bits.
AgreeOnPrefix(a, b, p) == \A i \in 1..p : AddressBit(a, i) = AddressBit(b, i)

\* C21: calculate_network_address is idempotent and depends only on the
\* first p bits: applied with the same mask to the address part of its own
\* result it returns that result again, and a valid address that agrees
\* with the first one on its first p bits gives the same CIDR.
C21_Idempotent == pc = "recalculated" =>
  /\ ret.ip_str = ret.first.val[1] => ret.second = ret.first
  /\ (ValidIPv4(ret.ip_str) /\ AgreeOnPrefix(ret.ip_str, call[1], ret.first.val[2])) => ret.second = ret.first

\* C21 witness: 10.7.8.5/13 gives 10.0.0.0/13, and 10.0.0.1, which differs
\* from 10.7.8.5 in its host bits only, gives 10.0.0.0/13 as well.
C21_Witness == /\ pc = "recalculated"
  /\ call = <<(<<10, 7, 8, 5>>), (<<13>>)>>
  /\ ret.ip_str = <<10, 0, 0, 1>>
  /\ ret.first = Ok(<<(<<10, 0, 0, 0>>), 13>>)
  /\ ret.second = ret.first

\* C21 witness of the re-masking itself: the address part of
\* 172.16.5.255/255.255.254.0, 172.16.4.0, is masked again to 172.16.4.0/23.
C21_Remasked == /\ pc = "recalculated"
  /\ call = <<(<<172, 16, 5, 255>>), (<<255, 255, 254, 0>>)>>
  /\ ret.ip_str = <<172, 16, 4, 0>>
  /\ ret.second = Ok(<<(<<172, 16, 4, 0>>), 23>>)

----------------------------------------------------------------------------
(* Properties of analyze_topology under rearrangement (specification     *)
(* SpecVariant)                                                           *)

\* The device names a result mentions.
LinkDevices(r) == {r.physical_links[k][1] : k \in DOMAIN r.physical_links} \cup {r.physical_links[k][6] : k \in DOMAIN r.physical_links} \cup {r.mgmt_networks[k][1] : k \in DOMAIN r.mgmt_networks} \cup {r.logical_links[k][1] : k \in DOMAIN r.logical_links} \cup {r.logical_links[k][5] : k \in DOMAIN r.logical_links}

\* The result of the first call, as the dict analyze_topology returns.
Result == [physical_links |-> physical_links, mgmt_networks |-> mgmt_networks, logical_links |-> logical_links]

\* C11: no link of analyze_topology names 'unknown', and the links are those
\* of the input without its 'unknown' records.
C11_UnknownExcluded == /\ pc \in {"analyzed", "compared"} => S_unknown \notin LinkDevices(Result)
  /\ (pc = "compared" /\ call = <<0, 0>>) => ret = Result

\* C11 witness: an 'unknown' record holds a third address of 10.0.0.0/31
\* between R2 and R1, and the link R2 - R1 is found all the same.
C11_Witness == /\ pc = "compared"
  /\ call = <<0, 0>>
  /\ devices_data[2].device_name = S_unknown
  /\ devices_data[2].all_ip_interfaces = <<VariantRaw[2]>>
  /\ Len(physical_links) = 1
  /\ physical_links[1][11] = <<(<<10, 0, 0, 0>>), 31>>

\* (network, device) of row a is less than or equal to that of row b, as
\* Python compares the tuples of strings.
PairLeq(a, b) == StrLess(CidrStr(a[6]), CidrStr(b[6])) \/ (a[6] = b[6] /\ (a[1] = b[1] \/ StrLess(a[1], b[1])))

IsOrdered(rows) == \A k \in 1..(Len(rows) - 1) : PairLeq(rows[k], rows[k + 1])

\* C12: the rows of find_mgmt_interfaces are in ascending order of
\* (network CIDR, device name), for the input and for each rearrangement.
C12_MgmtOrdered == /\ pc \in {"analyzed", "compared"} => IsOrdered(mgmt_networks)
  /\ pc = "compared" => IsOrdered(ret.mgmt_networks)

\* C12 witness: R2 stands ahead of R1 in the input with a bridge interface
\* in 172.16.5.0/24, R1 has MEth0/0/0 with 10.7.8.5/24; the rows come out as
\* R1 10.7.8.5/24, then R2 172.16.5.0/24.
C12_Witness == /\ pc = "analyzed"
  /\ devices_data[1].device_name = D_R2
  /\ devices_data[3].device_name = D_R1
  /\ Len(mgmt_networks) = 2
  /\ mgmt_networks[1][1] = D_R1
  /\ mgmt_networks[1][6] = <<(<<10, 7, 8, 5>>), 24>>
  /\ mgmt_networks[2][1] = D_R2
  /\ mgmt_networks[2][6] = <<(<<172, 16, 5, 0>>), 24>>

\* Exchanging positions i < j leaves the records of each name in their
\* relative order.
SwapKeepsRecordOrder(devices, i, j) == /\ \A k \in (i + 1)..j : devices[k].device_name # devices[i].device_name
  /\ \A k \in i..(j - 1) : devices[k].device_name # devices[j].device_name

\* The unordered device pair and the CIDR of each Physical link.
PairsAndCidrs(links) == {<<{links[k][1], links[k][6]}, links[k][11]>> : k \in DOMAIN links}

C13_RecordOrderMatters == /\ pc = "compared"
  /\ call # <<0, 0>>
  /\ ~SwapKeepsRecordOrder(devices_data, call[1], call[2])
  /\ Len(ret.physical_links) # Len(physical_links)

----------------------------------------------------------------------------
(* Properties of extract_interface_number (specification SpecNumber) *)

\* C15 (as claimed): a name "<base>.<integer>" gives (base, [integer]), and
\* every other name gives (name, []).
C15_SplitSuffix == pc = "extract_interface_number" => ret = IF HasNumericSuffix(call) THEN <<BaseOf(call), <<SuffixOf(call)>>>> ELSE <<call, <<>>>>

\* C15, the names that start with a letter: the suffix is split off.
C15_LetterStemSplit == (pc = "extract_interface_number" /\ call[1] \notin DigitChars) => ret = IF HasNumericSuffix(call) THEN <<BaseOf(call), <<SuffixOf(call)>>>> ELSE <<call, <<>>>>

----------------------------------------------------------------------------
(* Properties of the role filters and of the deduplication (specification  *)
(* SpecExtract)                                                            *)

RoleFilters == {"physical", "mgmt", "logical"}

\* The number of role predicates a descriptor satisfies.
RolesOf(d) == Cardinality({r \in RoleFilters : PassesFilter(d, r)})

\* The (interface, ip) pairs returned under a filter.
ReturnedUnder(device, filter_type) == {<<d.interface, d.ip>> : d \in Range(ExtractDeviceInterfaces(device, filter_type))}

\* C16 (as claimed): every descriptor satisfies at most one role predicate,
\* and no interface returned under one role filter is returned under
\* another.
C16_RolesExclusive == pc = "extracted" =>
    /\ \A k \in DOMAIN ret : RolesOf(ret[k]) <= 1
    /\ call \in RoleFilters => \A g \in RoleFilters \ {call} : ReturnedUnder(devices_data[1], g) \cap {<<ret[k].interface, ret[k].ip>> : k \in DOMAIN ret} = {}

\* C16, the part about the flags alone: at most one role predicate holds of
\* a descriptor.
C16_FlagsExclusive == pc = "extracted" => \A k \in DOMAIN ret : RolesOf(ret[k]) <= 1

\* The first all_ip_interfaces entry of the device in network c.
FirstIn(entries, c) == entries[CHOOSE i \in DOMAIN entries : IntfData(entries[i]).network_cidr = c /\ \A j \in 1..(i - 1) : IntfData(entries[j]).network_cidr # c]

\* C17 (as claimed): the returned list holds no two descriptors of one
\* network_cidr, and a descriptor taken from all_ip_interfaces is the first
\* entry of its network.
C17_OnePerNetwork == pc = "extracted" =>
    /\ \A k \in DOMAIN ret : \A l \in DOMAIN ret : k # l => ret[k].network_cidr # ret[l].network_cidr
    /\ \A k \in DOMAIN ret : ret[k].source = "all_ip" => ret[k] = IntfData(FirstIn(devices_data[1].all_ip_interfaces, ret[k].network_cidr))

\* C17, the entries of all_ip_interfaces alone: one descriptor per network,
\* the first entry of it.
C17_AllIpOnePerNetwork == pc = "extracted" =>
    /\ \A k \in DOMAIN ret : \A l \in DOMAIN ret : (k # l /\ ret[k].source = "all_ip" /\ ret[l].source = "all_ip") => ret[k].network_cidr # ret[l].network_cidr
    /\ \A k \in DOMAIN ret : ret[k].source = "all_ip" => ret[k] = IntfData(FirstIn(devices_data[1].all_ip_interfaces, ret[k].network_cidr))

\* The descriptors of the unfiltered result that satisfy the role predicate,
\* in their order.
RestrictedAll(device, filter_type) == SelectSeq(ExtractDeviceInterfaces(device, "all"), LAMBDA d : PassesFilter(d, filter_type))

\* C26 (as claimed): under a role filter extract_device_interfaces returns
\* exactly the descriptors of the unfiltered result that satisfy the role's
\* predicate, in the same order.
C26_FilterRestrictsAll == (pc = "extracted" /\ call \in RoleFilters) => ret = RestrictedAll(devices_data[1], call)

\* The failing run of C26: all_ip_interfaces lists 100GE1/0/1 with
\* 10.7.8.5 and management_info names the same port and address; the
\* unfiltered result holds the all_ip descriptor alone, the result under
\* 'mgmt' holds a descriptor of source 'management' instead.
C26_ManagementOnlyUnderMgmt == /\ pc = "extracted"
  /\ call = "mgmt"
  /\ Len(ret) = 1
  /\ ret[1].source = "management"
  /\ ret[1].interface = N_100GE1
  /\ (\A d \in Range(ExtractDeviceInterfaces(devices_data[1], "all")) : d.source = "all_ip")
  /\ (\E e \in Range(ExtractDeviceInterfaces(devices_data[1], "all")) : e.interface = N_100GE1 /\ e.ip = ret[1].ip)

\* What holds of the filters: the descriptors taken from all_ip_interfaces
\* under a role filter are those of the unfiltered result that satisfy the
\* predicate, in the same order.
C26_AllIpRestrictsAll == (pc = "extracted" /\ call \in RoleFilters) =>
  SelectSeq(ret, LAMBDA d : d.source = "all_ip") = SelectSeq(RestrictedAll(devices_data[1], call), LAMBDA d : d.source = "all_ip")

----------------------------------------------------------------------------
(* Properties of the layout strategies (specification SpecLayout) *)

\* A call of a layout strategy on more than one object.
ManyObjects == Len(AllObjects(devices_data)) > 1

\* C18 (as claimed): with no object or one, each strategy returns, and the
\* object, if there is one, is at x = 0, y = 0.
C18_TrivialAtOrigin == (pc = "placed" /\ ~ManyObjects) =>
    /\ Len(ret) = Len(AllObjects(devices_data))
    /\ \A i \in DOMAIN ret : ret[i].x = 0 /\ ret[i].y = 0

\* C18, for the force-directed and the clustered strategy alone.
C18_ForceDirectedAndClustered == (pc = "placed" /\ ~ManyObjects /\ call.algorithm \in {"force_directed", "clustered"}) =>
    /\ Len(ret) = Len(AllObjects(devices_data))
    /\ \A i \in DOMAIN ret : ret[i].x = 0 /\ ret[i].y = 0

\* The centres p and q are at least min_dist apart.
ApartBy(p, q, min_dist) == (p[1] - q[1]) * (p[1] - q[1]) + (p[2] - q[2]) * (p[2] - q[2]) >= min_dist * min_dist

\* C19 (as claimed): when _resolve_overlaps returns before its fifth round,
\* two objects whose padded boxes overlapped in the positions passed are at
\* least the sum of their half-diagonals plus the padding apart.
C19_SeparatedAfterPass == (pc = "resolved" /\ call.round < OverlapRounds) =>
    \A i \in DOMAIN ret : \A j \in DOMAIN ret :
        (i # j /\ BoxesOverlap(call.passed[i], call.passed[j], AllObjects(devices_data)[i], AllObjects(devices_data)[j], call.padding))
            => ApartBy(ret[i], ret[j], MinDistance(AllObjects(devices_data)[i], AllObjects(devices_data)[j], call.padding))

\* C19, what the pass does reach: when it returns after a round without
\* overlaps, no two padded boxes overlap.
C19_NoOverlapLeft == (pc = "resolved" /\ ~call.overlaps_found) =>
    \A i \in DOMAIN ret : \A j \in DOMAIN ret :
        i # j => ~BoxesOverlap(ret[i], ret[j], AllObjects(devices_data)[i], AllObjects(devices_data)[j], call.padding)

\* C19, two objects at one centre: the pass has run its five rounds and has
\* left them where they were.
C19_SameCentreKept == /\ pc = "resolved"
  /\ call.round = OverlapRounds
  /\ call.overlaps_found
  /\ \E i \in DOMAIN ret : \E j \in DOMAIN ret : i # j /\ call.passed[i] = call.passed[j] /\ ret[i] = ret[j]

\* The force-directed layout has left its simulation loop.
SimulationOver == call.algorithm = "force_directed" /\ (pc = "resolve" \/ (pc = "placed" /\ ManyObjects))

\* _resolve_overlaps has returned.
PassOver == pc = "resolved" \/ (call.algorithm = "force_directed" /\ pc = "placed" /\ ManyObjects)

\* C20 (as claimed): every force-directed layout that has returned has run
\* 40 simulation iterations, and its overlap pass at most 5 rounds, fewer
\* only after a round without overlaps.
C20_FortyIterationsEveryInput == (pc = "placed" /\ call.algorithm = "force_directed") =>
    /\ call.iteration = iterations
    /\ call.round >= 1
    /\ call.round <= OverlapRounds
    /\ call.round < OverlapRounds => ~call.overlaps_found

\* C20 (amended): on two or more objects the simulation loop runs its 40
\* iterations, no fewer and no more, whatever the positions; the overlap
\* pass runs at most 5 rounds and returns earlier only after a round without
\* overlaps.  On fewer objects neither loop is entered.
C20_FixedLoopLengths ==
    /\ call.iteration <= iterations
    /\ call.round <= OverlapRounds
    /\ pc = "simulate" => (call.iteration < iterations /\ call.round = 0)
    /\ SimulationOver => call.iteration = iterations
    /\ PassOver => (call.round >= 1 /\ (call.round < OverlapRounds => ~call.overlaps_found))

\* C20 witness: a force-directed layout of two objects has returned after
\* 40 iterations and a pass that ended early.
C20_Witness == /\ pc = "placed"
  /\ call.algorithm = "force_directed"
  /\ ManyObjects
  /\ call.iteration = iterations
  /\ call.round >= 1
  /\ call.round < OverlapRounds

\* C20, the pass at its bound: _resolve_overlaps has returned after five
\* rounds, the last one with overlaps.
C20_BoundReached == pc = "resolved" /\ call.round = OverlapRounds /\ call.overlaps_found

\* C20, termination: every step either returns or counts one more
\* iteration or round, ...
C20_Progress == [][pc' \in {"placed", "resolved"} \/ (pc = "layout" /\ pc' = "simulate") \/ call'.iteration + call'.round > call.iteration + call.round]_vars

\* ... and a call that has not returned can take a step.
C20_NotStuck == \/ pc \in {"placed", "resolved"}
  \/ (pc = "layout" /\ call.algorithm \in Algorithms)
  \/ (pc = "simulate" /\ call.iteration < iterations)
  \/ (pc = "resolve" /\ (ResolveContinues(call.round, call.overlaps_found) \/ call.algorithm \in {"_resolve_overlaps", "force_directed"}))

\* The step taken is iteration call.iteration of the simulation loop.
IsSimulationStep == pc = "simulate" /\ call'.iteration = call.iteration + 1

\* C22: in iteration i of the force-directed simulation no x and no y
\* coordinate changes by more than the temperature 60 * (1 - i/40); the
\* temperature is positive and lower than in the iteration before.
C22_MoveWithinTemperature == [][IsSimulationStep =>
    /\ \A v \in DOMAIN call.positions :
         /\ Abs(call'.positions[v][1] - call.positions[v][1]) <= Temperature(call.iteration)
         /\ Abs(call'.positions[v][2] - call.positions[v][2]) <= Temperature(call.iteration)
    /\ Temperature(call.iteration) * iterations = Deci(initial_temperature) * (iterations - call.iteration)
    /\ Temperature(call.iteration) > 0
    /\ (call.iteration > 0 => Temperature(call.iteration) < Temperature(call.iteration - 1))]_vars

\* C22 witness: 39 iterations are done and the forces on some object are
\* larger than 1.5, the temperature of the last iteration, so the bound
\* is what limits the move that follows.
C22_Witness == /\ pc = "simulate"
  /\ call.iteration = iterations - 1
  /\ Temperature(call.iteration) = 15
  /\ \E v \in DOMAIN call.positions : Abs(Displacement(devices_data, call.positions, v)[1]) > Temperature(call.iteration)

\* C30 (as claimed): _resolve_overlaps works on a copy, so after the call
\* the positions of the caller hold the coordinates they held before it.
C30_CallerPositionsKept == PassOver => call.positions = call.passed

\* The failing run of C30: A, B and C, 30x40 each, passed at x = 0, 10 and
\* 20 with padding 10; the call returns A at -60 and B at 70, and the
\* caller's positions hold -60 and 70 as well.
C30_CallerPositionsMoved == /\ pc = "resolved"
  /\ call.padding = 10
  /\ \A i \in DOMAIN devices_data.devices : Width(devices_data.devices[i]) = 30
  /\ call.passed = <<(<<0, 0>>), (<<Deci(10), 0>>), (<<Deci(20), 0>>)>>
  /\ ret = <<(<<-Deci(60), 0>>), (<<Deci(70), 0>>), (<<Deci(20), 0>>)>>
  /\ call.positions = ret

\* What holds of the caller's positions: they are moved with the returned
\* ones, and kept in the calls that find no overlap.
C30_MovedWithResult == /\ pc = "resolved" => call.positions = ret
  /\ (pc = "resolved" /\ call.round = 1 /\ ~call.overlaps_found) => call.positions = call.passed

----------------------------------------------------------------------------
(* Properties of generate_network_list (specification SpecNetworkList)    *)

PhysicalNetworks == {physical_links[k][11] : k \in DOMAIN physical_links}

MgmtNetworks == {mgmt_networks[k][6] : k \in DOMAIN mgmt_networks}

\* The logical links that reference the network in their description.
ServiceRowsOn(network) == {k \in DOMAIN logical_links : logical_links[k][9] = <<"Service Network", network>>}

\* C24 (as claimed): a network of a physical link is tagged 1, a network of
\* a management row and of no physical link 2, and a network that only
\* logical links reference 3, however many of them do.
C24_PatternTag == pc = "network_list" =>
  /\ {ret[k].label : k \in DOMAIN ret} = PhysicalNetworks \cup MgmtNetworks \cup {network \in ListNetworks : ServiceRowsOn(network) # {}}
  /\ \A k \in DOMAIN ret : ret[k].pattern = (IF ret[k].label \in PhysicalNetworks THEN 1 ELSE IF ret[k].label \in MgmtNetworks THEN 2 ELSE 3)

\* The failing run of C24: two 'Service Network' links reference
\* 172.16.5.0/24, which no physical link and no management row holds, and
\* the network is tagged 2.
C24_TwoLinksTaggedTwo == /\ pc = "network_list"
  /\ physical_links = <<>>
  /\ mgmt_networks = <<>>
  /\ Len(logical_links) = 2
  /\ Cardinality(ServiceRowsOn(<<(<<172, 16, 5, 0>>), 24>>)) = 2
  /\ ret = <<[label |-> <<(<<172, 16, 5, 0>>), 24>>, pattern |-> 2]>>

\* What holds of the tags: 1 and 2 as claimed, and 3 for a network that
\* exactly one logical link and nothing else references.
C24_TagThreeForOneLink == pc = "network_list" =>
  \A k \in DOMAIN ret : ret[k].pattern = (IF ret[k].label \in PhysicalNetworks THEN 1 ELSE IF ret[k].label \in MgmtNetworks THEN 2 ELSE IF Cardinality(ServiceRowsOn(ret[k].label)) = 1 THEN 3 ELSE 2)

----------------------------------------------------------------------------
(* Properties of find_connections (specification SpecConnections)         *)

\* The IP network of a routing network given as address/prefix-length;
\* <<>> where it gives none.
IpNetworkOf(net) == IF "network" \in DOMAIN net /\ Len(net.network) = 2 /\ IsDigit(net.network[2]) THEN IPv4NetworkStr(net.network[1], net.network[2][1]) ELSE <<>>

\* The records i and j of different devices hold the interfaces a and b in
\* one IP network.
ShareNetwork(i, j, a, b) == /\ devices_data[i].filename # devices_data[j].filename
  /\ IpNetworkOf(devices_data[i].routing_networks[a]) # <<>>
  /\ IpNetworkOf(devices_data[i].routing_networks[a]) = IpNetworkOf(devices_data[j].routing_networks[b])

\* ret has a connection between the two interfaces, in either direction.
Connected(i, j, a, b) == \E k \in DOMAIN ret :
  \/ (ret[k].source = devices_data[i].filename /\ ret[k].target = devices_data[j].filename /\ ret[k].source_interface = devices_data[i].routing_networks[a].interface /\ ret[k].target_interface = devices_data[j].routing_networks[b].interface)
  \/ (ret[k].source = devices_data[j].filename /\ ret[k].target = devices_data[i].filename /\ ret[k].source_interface = devices_data[j].routing_networks[b].interface /\ ret[k].target_interface = devices_data[i].routing_networks[a].interface)

UniqueFilenames == \A i, j \in DOMAIN devices_data : devices_data[i].filename = devices_data[j].filename => i = j

\* C25 (as claimed): for every pair of distinct devices with interfaces in
\* the same IP network, find_connections returns a connection between
\* them, also when the host addresses of the two interfaces differ.
C25_SharedNetworkConnected == (pc = "connections" /\ UniqueFilenames) =>
  \A i, j \in DOMAIN devices_data : \A a \in DOMAIN devices_data[i].routing_networks : \A b \in DOMAIN devices_data[j].routing_networks :
    ShareNetwork(i, j, a, b) => Connected(i, j, a, b)

\* The failing run of C25: R1 has 10.0.0.1/24 and R2 has 10.0.0.2/24 on
\* GE1/0/1, both in 10.0.0.0/24, and no connection is returned.
C25_NeighboursNotConnected == /\ pc = "connections"
  /\ devices_data = <<[filename |-> D_R1, routing_networks |-> <<RoutingNetwork(N_GE1, <<10, 0, 0, 1>>, <<24>>)>>], [filename |-> D_R2, routing_networks |-> <<RoutingNetwork(N_GE1, <<10, 0, 0, 2>>, <<24>>)>>]>>
  /\ ShareNetwork(1, 2, 1, 1)
  /\ ret = <<>>

\* What holds of find_connections: two devices are connected exactly on
\* the interfaces whose address/prefix strings are equal, and every
\* unordered pair of devices is taken once, so no connection is repeated.
C25_EqualStringsConnected == (pc = "connections" /\ UniqueFilenames) =>
  /\ \A i, j \in DOMAIN devices_data : \A a \in DOMAIN devices_data[i].routing_networks : \A b \in DOMAIN devices_data[j].routing_networks :
       (i # j /\ IpNetworkOf(devices_data[i].routing_networks[a]) # <<>>) =>
         (Connected(i, j, a, b) <=> devices_data[i].routing_networks[a].network = devices_data[j].routing_networks[b].network)
  /\ \A k, l \in DOMAIN ret : (k # l /\ {ret[k].source, ret[k].target} = {ret[l].source, ret[l].target} /\ ret[k].network = ret[l].network) =>
       <<ret[k].source, ret[k].target>> = <<ret[l].source, ret[l].target>> /\ <<ret[k].source_interface, ret[k].target_interface>> # <<ret[l].source_interface, ret[l].target_interface>>

----------------------------------------------------------------------------
(* Properties of the grid and the clustered layout (specification         *)
(* SpecPacking)                                                           *)

\* A link joins a and b, in either direction.
Adjacent(objects, a, b) == \E k \in DOMAIN objects.links : (objects.links[k].source = a /\ objects.links[k].target = b) \/ (objects.links[k].source = b /\ objects.links[k].target = a)

\* The objects of the layout joined to one of set by a path of links that
\* passes through objects of the layout only.
RECURSIVE Component(_, _)
Component(objects, set) == LET next == set \cup {b \in ObjectIds(objects) : \E a \in set : Adjacent(objects, a, b)} IN IF next = set THEN set ELSE Component(objects, next)

\* The corner and the size of an object after the layout.
CornerOf(obj_id) == ret[CHOOSE i \in DOMAIN ret : ret[i].id = obj_id]

WidthOf(obj_id) == Deci(Width(ObjectOf(devices_data, obj_id)))

HeightOf(obj_id) == Deci(Height(ObjectOf(devices_data, obj_id)))

ClustersBuilt == Clusters(devices_data, 1, {}, <<>>)

\* C23: the clusters of layout_algorithm_clustered are the connected
\* components of the link graph on the objects laid out: every object is in
\* exactly one cluster, two objects share a cluster exactly when a path of
\* links through laid-out objects joins them, and every object of a later
\* cluster starts at or right of the right edge of every object of an
\* earlier cluster.
C23_ClustersAreComponents == (pc = "placed" /\ call.algorithm = "clustered") =>
  /\ \A obj_id \in ObjectIds(devices_data) : Cardinality({<<k, i>> \in (DOMAIN ClustersBuilt) \X (1..Len(AllObjects(devices_data))) : i <= Len(ClustersBuilt[k]) /\ ClustersBuilt[k][i] = obj_id}) = 1
  /\ \A k \in DOMAIN ClustersBuilt : Range(ClustersBuilt[k]) \subseteq ObjectIds(devices_data)
  /\ \A a, b \in ObjectIds(devices_data) : (\E k \in DOMAIN ClustersBuilt : {a, b} \subseteq Range(ClustersBuilt[k])) <=> b \in Component(devices_data, {a})
  /\ \A j, k \in DOMAIN ClustersBuilt : j < k => \A a \in Range(ClustersBuilt[j]), b \in Range(ClustersBuilt[k]) : CornerOf(b).x >= CornerOf(a).x + WidthOf(a)

\* C23 witness: d1 - n1 - d2 - n2 - d3 with n2 not laid out: d1, n1 and d2
\* form the first cluster, d3 alone the second, placed right of it.
C23_Witness == /\ pc = "placed"
  /\ call.algorithm = "clustered"
  /\ devices_data.links = PackChain
  /\ Len(devices_data.devices) = 3
  /\ Len(devices_data.networks) = 1
  /\ ClustersBuilt = <<(<<"d1", "n1", "d2">>), (<<"d3">>)>>
  /\ CornerOf("d3").x >= CornerOf("d2").x + WidthOf("d2")

\* The bounding boxes [x, x + width) x [y, y + height) of a and b overlap.
BoundingBoxesOverlap(a, b) ==
  /\ CornerOf(a).x < CornerOf(b).x + WidthOf(b)
  /\ CornerOf(b).x < CornerOf(a).x + WidthOf(a)
  /\ CornerOf(a).y < CornerOf(b).y + HeightOf(b)
  /\ CornerOf(b).y < CornerOf(a).y + HeightOf(a)

\* C28 (as claimed): after layout_algorithm_grid no two distinct objects
\* have overlapping bounding boxes, whatever their widths and heights.
C28_GridNoOverlap == (pc = "placed" /\ call.algorithm = "grid") =>
  \A a, b \in ObjectIds(devices_data) : a # b => ~BoundingBoxesOverlap(a, b)

\* The failing run of C28: the devices 30x200 and 30x40 form a group whose
\* height is taken from the last one, so the group of n2 in the next row of
\* groups starts at y = 220 while d1 reaches down to y = 250.
C28_TallObjectCovered == /\ pc = "placed"
  /\ call.algorithm = "grid"
  /\ devices_data.devices = <<Box("d1", <<30, 200>>), Box("d2", <<30, 40>>)>>
  /\ devices_data.networks = <<Net("n1", <<30, 40>>, 1), Net("n2", <<30, 40>>, 2)>>
  /\ CornerOf("d1") = [id |-> "d1", x |-> Deci(50), y |-> Deci(50)]
  /\ CornerOf("n2") = [id |-> "n2", x |-> Deci(50), y |-> Deci(220)]
  /\ BoundingBoxesOverlap("d1", "n2")

\* What holds of the grid: the objects of one group never overlap.
C28_GroupNoOverlap == (pc = "placed" /\ call.algorithm = "grid") =>
  \A k \in DOMAIN AllGroups(devices_data) : \A i, j \in DOMAIN AllGroups(devices_data)[k] : i # j => ~BoundingBoxesOverlap(AllGroups(devices_data)[k][i].id, AllGroups(devices_data)[k][j].id)

\* C29 (as claimed): after layout_algorithm_clustered no two distinct
\* objects of one multi-member cluster have overlapping bounding boxes,
\* whatever their widths and heights.
C29_ClusterNoOverlap == (pc = "placed" /\ call.algorithm = "clustered") =>
  \A k \in DOMAIN ClustersBuilt : \A a, b \in Range(ClustersBuilt[k]) : a # b => ~BoundingBoxesOverlap(a, b)

\* The failing run of C29: d1 (90x120) and n1 (30x40) are linked; the
\* column of n1 is spaced by the width of n1 itself, so n1 is put at x = 80
\* inside d1, which spans x = 0 .. 90.
C29_NarrowInsideWide == /\ pc = "placed"
  /\ call.algorithm = "clustered"
  /\ devices_data.devices = <<Box("d1", <<90, 120>>)>>
  /\ devices_data.networks = <<Net("n1", <<30, 40>>, 1)>>
  /\ devices_data.links = <<Link("d1", "n1")>>
  /\ CornerOf("d1") = [id |-> "d1", x |-> 0, y |-> 0]
  /\ CornerOf("n1") = [id |-> "n1", x |-> Deci(80), y |-> 0]
  /\ BoundingBoxesOverlap("d1", "n1")

\* What holds of a cluster: objects of equal width and height never overlap.
C29_EqualSizesNoOverlap == (pc = "placed" /\ call.algorithm = "clustered") =>
  \A k \in DOMAIN ClustersBuilt : \A a, b \in Range(ClustersBuilt[k]) : (a # b /\ WidthOf(a) = WidthOf(b) /\ HeightOf(a) = HeightOf(b)) => ~BoundingBoxesOverlap(a, b)

====
